---- MODULE Spec2Model ----
(***************************************************************************)
(* The Egypt trade dashboard: the record-driven App (src/unnamed/part_000) *)
(* and the precomputed-payload App (src/my-dashboard-app/src/App.jsx).     *)
(*                                                                         *)
(* JavaScript values are records [t, n, d, s]: t is the typeof-style tag,  *)
(* n/d a rational number (d = 0 is NaN), s the characters of a string.     *)
(* Strings are sequences of one-character strings, so that substring       *)
(* search, case folding and number parsing are computed, not assumed.      *)
(***************************************************************************)
EXTENDS Integers, Sequences, FiniteSets, TLC

VARIABLES
  tradeDataRawInput,  \* part_000:13  the imported trade JSON
  wbDataRawInput,     \* part_000:14  the imported indicator JSON
  activeTab,          \* useState('overview')
  selectedYear,       \* useState(null)
  searchTerm,         \* useState('')
  status,             \* "mounting", "ok", or "crashed" (a render raised)
  loading,            \* App.jsx:126  useState(true)
  dashboardData,      \* App.jsx:128  useState(null)
  wbDataState,        \* App.jsx:129  useState([]), the state named wbData
  dashRes,            \* App.jsx:137  what the fetch of the payload settles to
  wbRes,              \* App.jsx:138  what the fetch of the indicators settles to
  fnName,             \* the pure function under direct application
  fnArg,              \* its argument
  fnOut               \* its result, once applied

vars == <<tradeDataRawInput, wbDataRawInput, activeTab, selectedYear,
          searchTerm, status, loading, dashboardData, wbDataState,
          dashRes, wbRes,
          fnName, fnArg, fnOut>>

-----------------------------------------------------------------------------
(* JavaScript values *)

Undef   == [t |-> "undefined", n |-> 0, d |-> 1, s |-> <<>>]
Null    == [t |-> "null",      n |-> 0, d |-> 1, s |-> <<>>]
True    == [t |-> "boolean",   n |-> 1, d |-> 1, s |-> <<>>]
False   == [t |-> "boolean",   n |-> 0, d |-> 1, s |-> <<>>]
ObjVal  == [t |-> "object",    n |-> 0, d |-> 1, s |-> <<>>]
FunVal  == [t |-> "function",  n |-> 0, d |-> 1, s |-> <<>>]
NaN     == [t |-> "number",    n |-> 0, d |-> 0, s |-> <<>>]
Num(i)  == [t |-> "number",    n |-> i, d |-> 1, s |-> <<>>]
Str(cs) == [t |-> "string",    n |-> 0, d |-> 1, s |-> cs]

IsNaN(v)    == v.t = "number" /\ v.d = 0
IsString(v) == v.t = "string"

RECURSIVE Gcd(_, _)
Gcd(a, b) == IF b = 0 THEN a ELSE Gcd(b, a % b)

Abs(i) == IF i < 0 THEN -i ELSE i

\* The number p/q (q > 0) in lowest terms.
Rat(p, q) ==
  LET g == Gcd(Abs(p), q)
  IN  [t |-> "number", n |-> p \div g, d |-> q \div g, s |-> <<>>]

\* IEEE arithmetic on the numbers the model draws: exact on finite values,
\* NaN is absorbing.
Add(a, b) == IF IsNaN(a) \/ IsNaN(b) THEN NaN
             ELSE Rat(a.n * b.d + b.n * a.d, a.d * b.d)
Neg(a)    == IF IsNaN(a) THEN NaN ELSE Rat(-a.n, a.d)
Sub(a, b) == Add(a, Neg(b))
Mul(a, b) == IF IsNaN(a) \/ IsNaN(b) THEN NaN
             ELSE Rat(a.n * b.n, a.d * b.d)
\* a / b for b # 0 (the call sites guard the division).
Div(a, b) == IF IsNaN(a) \/ IsNaN(b) \/ b.n = 0 THEN NaN
             ELSE IF b.n > 0 THEN Rat(a.n * b.d, a.d * b.n)
             ELSE Rat(-(a.n * b.d), a.d * (-b.n))
\* a > b; every comparison with NaN is false.
Gt(a, b)  == ~IsNaN(a) /\ ~IsNaN(b) /\ a.n * b.d > b.n * a.d
Ge(a, b)  == ~IsNaN(a) /\ ~IsNaN(b) /\ a.n * b.d >= b.n * a.d

\* ToBoolean.
Truthy(v) ==
  CASE v.t = "undefined" -> FALSE
    [] v.t = "null"      -> FALSE
    [] v.t = "boolean"   -> v.n = 1
    [] v.t = "number"    -> v.d # 0 /\ v.n # 0
    [] v.t = "string"    -> v.s # <<>>
    [] OTHER             -> TRUE

\* a || b
Or(a, b) == IF Truthy(a) THEN a ELSE b

-----------------------------------------------------------------------------
(* Strings *)

Digits == <<"0","1","2","3","4","5","6","7","8","9">>
IsDigit(c) == \E i \in 1..10 : Digits[i] = c
DigitVal(c) == (CHOOSE i \in 1..10 : Digits[i] = c) - 1
IsSpace(c) == c \in {" ", "\t", "\n"}

Upper == <<"A","B","C","D","E","F","G","H","I","J","K","L","M",
           "N","O","P","Q","R","S","T","U","V","W","X","Y","Z">>
Lower == <<"a","b","c","d","e","f","g","h","i","j","k","l","m",
           "n","o","p","q","r","s","t","u","v","w","x","y","z">>
LowerChar(c) == IF \E i \in 1..26 : Upper[i] = c
                THEN Lower[CHOOSE i \in 1..26 : Upper[i] = c] ELSE c

\* String.prototype.toLowerCase
ToLowerCase(cs) == [i \in 1..Len(cs) |-> LowerChar(cs[i])]

\* String.prototype.includes
Includes(cs, sub) ==
  \E i \in 0..(Len(cs) - Len(sub)) :
    \A j \in 1..Len(sub) : cs[i + j] = sub[j]

RECURSIVE DropSpaces(_)
DropSpaces(cs) == IF cs # <<>> /\ IsSpace(Head(cs)) THEN DropSpaces(Tail(cs)) ELSE cs

RECURSIVE DropTrailingSpaces(_)
DropTrailingSpaces(cs) ==
  IF cs # <<>> /\ IsSpace(cs[Len(cs)])
  THEN DropTrailingSpaces(SubSeq(cs, 1, Len(cs) - 1)) ELSE cs

\* String.prototype.trim
Trim(cs) == DropTrailingSpaces(DropSpaces(cs))

\* .replace(/,/g, '')
RemoveCommas(cs) == SelectSeq(cs, LAMBDA c : c # ",")

RECURSIVE TakeDigits(_)
TakeDigits(cs) == IF cs # <<>> /\ IsDigit(Head(cs))
                  THEN <<Head(cs)>> \o TakeDigits(Tail(cs)) ELSE <<>>

RECURSIVE DigitsToInt(_)
DigitsToInt(ds) == IF ds = <<>> THEN 0
                   ELSE 10 * DigitsToInt(SubSeq(ds, 1, Len(ds) - 1)) + DigitVal(ds[Len(ds)])

RECURSIVE Pow10(_)
Pow10(k) == IF k = 0 THEN 1 ELSE 10 * Pow10(k - 1)

RECURSIVE IntToDigits(_)
IntToDigits(i) == IF i < 10 THEN <<Digits[i + 1]>>
                  ELSE IntToDigits(i \div 10) \o <<Digits[(i % 10) + 1]>>

\* The decimal digits of r/q (0 <= r < q) after the point; the numbers drawn
\* have terminating expansions.
RECURSIVE FracDigits(_, _)
FracDigits(r, q) == IF r = 0 THEN <<>>
                    ELSE <<Digits[((10 * r) \div q) + 1]>> \o FracDigits((10 * r) % q, q)

\* Number::toString for the magnitudes drawn (no exponent form).
NumberToString(v) ==
  IF IsNaN(v) THEN <<"N","a","N">>
  ELSE LET a == Abs(v.n)
           whole == IntToDigits(a \div v.d)
           frac  == FracDigits(a % v.d, v.d)
       IN  (IF v.n < 0 THEN <<"-">> ELSE <<>>) \o whole
           \o (IF frac = <<>> THEN <<>> ELSE <<".">> \o frac)

\* String(val)
ToStr(v) ==
  CASE v.t = "undefined" -> <<"u","n","d","e","f","i","n","e","d">>
    [] v.t = "null"      -> <<"n","u","l","l">>
    [] v.t = "boolean"   -> IF v.n = 1 THEN <<"t","r","u","e">> ELSE <<"f","a","l","s","e">>
    [] v.t = "number"    -> NumberToString(v)
    [] v.t = "string"    -> v.s
    [] v.t = "object"    -> <<"[","o","b","j","e","c","t"," ","O","b","j","e","c","t","]">>
    [] OTHER             -> <<"f","u","n","c","t","i","o","n">>

\* The sign and the unsigned rest of a numeric text whose leading white space
\* is already skipped.
SignOf(cs)   == IF cs # <<>> /\ Head(cs) = "-" THEN -1 ELSE 1
Unsigned(cs) == IF cs # <<>> /\ Head(cs) \in {"-", "+"} THEN Tail(cs) ELSE cs

\* parseFloat(string): the longest prefix that is a decimal literal (sign,
\* digits, point, digits); NaN when there is none. Exponents and "Infinity"
\* do not occur in the texts drawn.
parseFloat(cs) ==
  LET body   == Unsigned(DropSpaces(cs))
      whole  == TakeDigits(body)
      rest   == SubSeq(body, Len(whole) + 1, Len(body))
      frac   == IF rest # <<>> /\ Head(rest) = "." THEN TakeDigits(Tail(rest)) ELSE <<>>
  IN  IF whole = <<>> /\ frac = <<>> THEN NaN
      ELSE Rat(SignOf(DropSpaces(cs))
                 * (DigitsToInt(whole) * Pow10(Len(frac)) + DigitsToInt(frac)),
               Pow10(Len(frac)))

\* parseInt(value): String(value), then the longest signed-digit prefix in
\* radix 10; NaN when there is none. No text drawn starts with 0x.
parseInt(v) ==
  LET cs     == DropSpaces(ToStr(v))
      digits == TakeDigits(Unsigned(cs))
  IN  IF digits = <<>> THEN NaN ELSE Num(SignOf(cs) * DigitsToInt(digits))

-----------------------------------------------------------------------------
(* part_000:26-43  the two pure helpers of the normalizer *)

\* A coercion that keeps the thousands separators.
safeParseFloatKeepCommas(val) ==
  IF val.t = "number" THEN val
  ELSE IF ~Truthy(val) THEN Num(0)
  ELSE LET num == parseFloat(Trim(ToStr(val)))
       IN  IF IsNaN(num) THEN Num(0) ELSE num

\* part_000:26-32
safeParseFloat(val) ==
  IF val.t = "number" THEN val
  ELSE IF ~Truthy(val) THEN Num(0)
  ELSE LET cleanStr == Trim(RemoveCommas(ToStr(val)))
           num      == parseFloat(cleanStr)
       IN  IF IsNaN(num) THEN Num(0) ELSE num

\* part_000:36-41  the own properties of the object literal `map`
RegionTable ==
  << <<<<"T","u","r","k","e","y">>, <<"M","E","N","A">>>>, <<<<"S","a","u","d","i"," ","A","r","a","b","i","a">>, <<"M","E","N","A">>>>,
     <<<<"U","n","i","t","e","d"," ","A","r","a","b"," ","E","m","i","r","a","t","e","s">>, <<"M","E","N","A">>>>, <<<<"L","i","b","y","a">>, <<"M","E","N","A">>>>,
     <<<<"J","o","r","d","a","n">>, <<"M","E","N","A">>>>, <<<<"E","g","y","p","t">>, <<"M","E","N","A">>>>,
     <<<<"I","t","a","l","y">>, <<"E","u","r","o","p","e">>>>, <<<<"G","e","r","m","a","n","y">>, <<"E","u","r","o","p","e">>>>, <<<<"S","p","a","i","n">>, <<"E","u","r","o","p","e">>>>,
     <<<<"U","n","i","t","e","d"," ","K","i","n","g","d","o","m">>, <<"E","u","r","o","p","e">>>>, <<<<"F","r","a","n","c","e">>, <<"E","u","r","o","p","e">>>>,
     <<<<"R","u","s","s","i","a">>, <<"E","u","r","o","p","e">>>>, <<<<"U","k","r","a","i","n","e">>, <<"E","u","r","o","p","e">>>>,
     <<<<"U","S","A">>, <<"A","m","e","r","i","c","a","s">>>>, <<<<"C","a","n","a","d","a">>, <<"A","m","e","r","i","c","a","s">>>>, <<<<"B","r","a","z","i","l">>, <<"A","m","e","r","i","c","a","s">>>>,
     <<<<"C","h","i","n","a">>, <<"A","s","i","a">>>>, <<<<"I","n","d","i","a">>, <<"A","s","i","a">>>>, <<<<"S","o","u","t","h"," ","K","o","r","e","a">>, <<"A","s","i","a">>>>,
     <<<<"J","a","p","a","n">>, <<"A","s","i","a">>>> >>

\* `map` is an ordinary object, so map[key] also finds what it inherits from
\* Object.prototype: functions, and for __proto__ the prototype object.
ObjectPrototypeKeys ==
  { <<"c","o","n","s","t","r","u","c","t","o","r">>, <<"t","o","S","t","r","i","n","g">>, <<"v","a","l","u","e","O","f">>, <<"t","o","L","o","c","a","l","e","S","t","r","i","n","g">>,
    <<"h","a","s","O","w","n","P","r","o","p","e","r","t","y">>, <<"i","s","P","r","o","t","o","t","y","p","e","O","f">>, <<"p","r","o","p","e","r","t","y","I","s","E","n","u","m","e","r","a","b","l","e">>,
    <<"_","_","p","r","o","t","o","_","_">>, <<"_","_","d","e","f","i","n","e","G","e","t","t","e","r","_","_">>, <<"_","_","d","e","f","i","n","e","S","e","t","t","e","r","_","_">>,
    <<"_","_","l","o","o","k","u","p","G","e","t","t","e","r","_","_">>, <<"_","_","l","o","o","k","u","p","S","e","t","t","e","r","_","_">> }

\* map[country]: the key is String(country).
MapLookup(country) ==
  LET key == ToStr(country)
  IN  IF \E i \in 1..Len(RegionTable) : RegionTable[i][1] = key
      THEN Str(RegionTable[CHOOSE i \in 1..Len(RegionTable) : RegionTable[i][1] = key][2])
      ELSE IF key = <<"_","_","p","r","o","t","o","_","_">> THEN ObjVal
      ELSE IF key \in ObjectPrototypeKeys THEN FunVal
      ELSE Undef

\* part_000:34-43
getRegionFromCountry(country) ==
  IF ~Truthy(country) THEN Str(<<"I","n","t","e","r","n","a","t","i","o","n","a","l">>)
  ELSE Or(MapLookup(country), Str(<<"I","n","t","e","r","n","a","t","i","o","n","a","l">>))

-----------------------------------------------------------------------------
(* Arrays, rows and plain objects *)

\* A JSON array of rows. A row is [t, f]: an object with the fields f, or a
\* primitive (null, undefined, number, ...) standing where a row should be.
ArrayOf(rows) == [t |-> "array", rows |-> rows]
IsArray(v)    == v.t = "array"
Row(fields)   == [t |-> "object", f |-> fields]
NullRow       == [t |-> "null", f |-> <<>>]
NumberRow     == [t |-> "number", f |-> <<>>]

\* row.key: undefined when the row is a primitive or lacks the key. (On null
\* and undefined the access raises; see RowAccessRaises.)
Get(row, key) == IF row.t = "object" /\ key \in DOMAIN row.f THEN row.f[key] ELSE Undef
RowAccessRaises(row) == row.t \in {"null", "undefined"}

\* A plain object used as a dictionary: its own properties in creation order.
MapHas(m, key)  == \E i \in 1..Len(m) : m[i].key = key
MapGet(m, key)  == m[CHOOSE i \in 1..Len(m) : m[i].key = key].val
MapPut(m, key, val) ==
  IF MapHas(m, key)
  THEN [i \in 1..Len(m) |-> IF m[i].key = key THEN [key |-> key, val |-> val] ELSE m[i]]
  ELSE Append(m, [key |-> key, val |-> val])

\* forEach / reduce over an array: Step applied to the rows from left to
\* right, starting from acc. The array is halved so that the evaluation stays
\* shallow on long arrays; the test on `left` only fixes the evaluation order.
RECURSIVE FoldLeft(_, _, _)
FoldLeft(Step(_, _), acc, rows) ==
  IF Len(rows) = 0 THEN acc
  ELSE IF Len(rows) = 1 THEN Step(acc, rows[1])
  ELSE LET half == Len(rows) \div 2
           left == FoldLeft(Step, acc, SubSeq(rows, 1, half))
       IN  IF left = left
           THEN FoldLeft(Step, left, SubSeq(rows, half + 1, Len(rows)))
           ELSE acc

\* x placed before the first member of s at one of the positions `hits`, at
\* the end when there is none.
InsertAt(x, s, hits) ==
  LET p == IF hits = {} THEN Len(s) + 1
           ELSE CHOOSE i \in hits : \A j \in hits : i <= j
  IN  SubSeq(s, 1, p - 1) \o <<x>> \o SubSeq(s, p, Len(s))

\* An array index: a canonical decimal integer below 2^32 - 1; here one of at
\* most nine digits (no longer digit key is drawn).
IsArrayIndex(cs) ==
  /\ cs # <<>>
  /\ \A i \in 1..Len(cs) : IsDigit(cs[i])
  /\ (Len(cs) = 1 \/ cs[1] # "0")
  /\ Len(cs) < 10

InsertByIndex(e, s) ==
  InsertAt(e, s, { i \in 1..Len(s) : DigitsToInt(e.key) < DigitsToInt(s[i].key) })

SortByIndex(s) == FoldLeft(LAMBDA sorted, e : InsertByIndex(e, sorted), <<>>, s)

\* Object.values: integer-like keys first in ascending numeric order, then
\* the other keys in creation order.
ObjectValues(m) ==
  LET indexed == SortByIndex(SelectSeq(m, LAMBDA e : IsArrayIndex(e.key)))
      named   == SelectSeq(m, LAMBDA e : ~IsArrayIndex(e.key))
      all     == indexed \o named
  IN  [i \in 1..Len(all) |-> all[i].val]

\* Array.prototype.sort is stable. Items are [k, v]: k the number the
\* comparator reads. A NaN difference counts as 0 (no reordering). 
InsertDesc(x, s) == InsertAt(x, s, { i \in 1..Len(s) : Gt(x.k, s[i].k) })

\* .sort((a, b) => b.k - a.k)
SortDesc(s) == FoldLeft(LAMBDA sorted, x : InsertDesc(x, sorted), <<>>, s)

InsertAsc(x, s) == InsertAt(x, s, { i \in 1..Len(s) : Gt(s[i].k, x.k) })

\* .sort((a, b) => a.k - b.k)
SortAsc(s) == FoldLeft(LAMBDA sorted, x : InsertAsc(x, sorted), <<>>, s)

Keyed(s, K(_)) == [i \in 1..Len(s) |-> [k |-> K(s[i]), v |-> s[i]]]
Unkeyed(s)     == [i \in 1..Len(s) |-> s[i].v]

\* .slice(0, n)
Slice(s, n) == SubSeq(s, 1, IF Len(s) < n THEN Len(s) ELSE n)

\* .reduce((a, b) => a + b, 0)
SumSeq(s) == FoldLeft(Add, Num(0), s)

-----------------------------------------------------------------------------
(* part_000:123-144  tradeData *)

\* part_000:127-140  the callback of .map
NormalizeRow(row) ==
  LET year      == Or(Get(row, "Year"), Get(row, "year_of_trade"))
      flow      == Or(Or(Get(row, "Flow_Description"), Get(row, "flow_description")),
                      Str(<<"U","n","k","n","o","w","n">>))
      partner   == Or(Or(Get(row, "Partner_Country"), Get(row, "partner_country_name")),
                      Str(<<"U","n","k","n","o","w","n">>))
      commodity == Or(Or(Get(row, "Traded_Commodities"), Get(row, "commodity_description")),
                      Str(<<"U","n","k","n","o","w","n">>))
  IN  [ Year      |-> Or(parseInt(year), Num(0)),
        Flow      |-> flow,
        Partner   |-> partner,
        Region    |-> getRegionFromCountry(partner),
        Commodity |-> commodity,
        Value     |-> safeParseFloat(Get(row, "Trade_Value")),
        Weight    |-> safeParseFloat(Get(row, "WeightofTradedGoods")) ]

\* A filter that drops only the year 0 and keeps negative years.
YearFilterNonZero(d) == d.Year # Num(0)

\* part_000:142
YearFilter(d) == Gt(d.Year, Num(0))

\* The commodity test without the lower-casing.
CommodityFilterCaseSensitive(d) == ~Includes(d.Commodity.s, <<"a","l","l"," ","c","o","m","m","o","d","i","t","i","e","s">>)

\* part_000:143
CommodityFilter(d) == ~Includes(ToLowerCase(d.Commodity.s), <<"a","l","l"," ","c","o","m","m","o","d","i","t","i","e","s">>)

\* The rows after .map and the first .filter (part_000:126-142).
MappedRows(raw) ==
  SelectSeq([i \in 1..Len(raw.rows) |-> NormalizeRow(raw.rows[i])], YearFilter)

\* The memo without its Array.isArray guard: .map on a value that has none.
TradeDataRaisesUnguarded(raw) ==
  \/ Truthy(raw) /\ ~IsArray(raw)
  \/ /\ IsArray(raw)
     /\ \/ \E i \in 1..Len(raw.rows) : RowAccessRaises(raw.rows[i])
        \/ LET mapped == MappedRows(raw)
           IN  \E i \in 1..Len(mapped) : ~IsString(mapped[i].Commodity)

\* A TypeError inside the memo: a property read on a null/undefined row, or
\* .toLowerCase on a commodity that is not a string.
TradeDataRaises(raw) ==
  /\ IsArray(raw)
  /\ \/ \E i \in 1..Len(raw.rows) : RowAccessRaises(raw.rows[i])
     \/ LET mapped == MappedRows(raw)
        IN  \E i \in 1..Len(mapped) : ~IsString(mapped[i].Commodity)

\* part_000:123-144
TradeDataOf(raw) ==
  IF ~Truthy(raw) \/ ~IsArray(raw) THEN <<>>
  ELSE SelectSeq(MappedRows(raw), CommodityFilter)

tradeData == TradeDataOf(tradeDataRawInput)

-----------------------------------------------------------------------------
(* part_000:146-168  wbData *)

GdpCodes == {<<"N","Y",".","G","D","P",".","M","K","T","P",".","K","D",".","Z","G">>, <<"W","B","_","W","D","I","_","N","Y","_","G","D","P","_","M","K","T","P","_","K","D","_","Z","G">>}
CpiCodes == {<<"F","P",".","C","P","I",".","T","O","T","L",".","Z","G">>, <<"W","B","_","W","D","I","_","F","P","_","C","P","I","_","T","O","T","L","_","Z","G">>}

\* part_000:150-165  one pass of the forEach callback over `years`
WbStep(years, row) ==
  LET y == parseInt(Or(Get(row, "Year"), Get(row, "year_of_trade")))
      key   == ToStr(y)
      entry == IF MapHas(years, key) THEN MapGet(years, key)
               ELSE [Year |-> y, GDP |-> Num(0), Inflation |-> Num(0)]
      code  == Or(Get(row, "Indicator_Code"), Get(row, "indicator_code"))
      value == safeParseFloat(Get(row, "Indicator_Value"))
      e1    == IF IsString(code) /\ code.s \in GdpCodes
               THEN [entry EXCEPT !.GDP = value] ELSE entry
      e2    == IF IsString(code) /\ code.s \in CpiCodes
               THEN [e1 EXCEPT !.Inflation = value] ELSE e1
  IN  IF ~Truthy(y) THEN years ELSE MapPut(years, key, e2)

WbFold(rows) == FoldLeft(WbStep, <<>>, rows)

WbDataRaises(raw) ==
  IsArray(raw) /\ \E i \in 1..Len(raw.rows) : RowAccessRaises(raw.rows[i])

WbYearKey(e) == e.Year

\* part_000:146-168
WbDataOf(raw) ==
  IF ~Truthy(raw) \/ ~IsArray(raw) THEN <<>>
  ELSE Unkeyed(SortAsc(Keyed(ObjectValues(WbFold(raw.rows)), WbYearKey)))

wbData == WbDataOf(wbDataRawInput)

-----------------------------------------------------------------------------
(* part_000:170-185  the year list and the rows of the selected year *)

\* [...new Set(xs)]: the distinct values in first-occurrence order.
Distinct(xs) ==
  FoldLeft(LAMBDA front, x :
             IF \E i \in 1..Len(front) : front[i] = x THEN front ELSE Append(front, x),
           <<>>, xs)

SelfKey(x) == x

\* part_000:170-174
AvailableYearsOf(td) ==
  Unkeyed(SortDesc(Keyed(Distinct([i \in 1..Len(td) |-> td[i].Year]), SelfKey)))

availableYears == AvailableYearsOf(tradeData)

\* row.Year === parseInt(selectedYear)
StrictEq(a, b) == a = b /\ ~IsNaN(a)

\* The selection without the year test: every record, whatever its year.
CurrentYearDataAllYears(td, sel) ==
  IF ~Truthy(sel) THEN <<>> ELSE td

\* part_000:182-185
CurrentYearDataOf(td, sel) ==
  IF ~Truthy(sel) THEN <<>>
  ELSE SelectSeq(td, LAMBDA row : StrictEq(row.Year, parseInt(sel)))

currentYearData == CurrentYearDataOf(tradeData, selectedYear)

-----------------------------------------------------------------------------
(* part_000:187-219  overviewStats *)

\* row.Flow.includes(word); a flow that is no string has no such method.
FlowIncludes(row, word) == Includes(row.Flow.s, word)
FlowRaises(row)         == ~IsString(row.Flow)

\* part_000:188-192
ExportsOf(rows) ==
  FoldLeft(LAMBDA acc, row :
             IF FlowIncludes(row, <<"E","x","p","o","r","t">>) THEN Add(acc, row.Value) ELSE acc,
           Num(0), rows)

ImportsOf(rows) ==
  FoldLeft(LAMBDA acc, row :
             IF FlowIncludes(row, <<"I","m","p","o","r","t">>) THEN Add(acc, row.Value) ELSE acc,
           Num(0), rows)

\* part_000:194-198
PartnerTotals(rows) ==
  FoldLeft(LAMBDA acc, row :
             LET key == ToStr(row.Partner)
                 cur == IF MapHas(acc, key) /\ Truthy(MapGet(acc, key))
                        THEN MapGet(acc, key) ELSE Num(0)
             IN  MapPut(acc, key, Add(cur, row.Value)),
           <<>>, rows)

TopPartners == 3

\* part_000:199
Top3Sum(rows) ==
  LET totals == ObjectValues(PartnerTotals(rows))
  IN  SumSeq(Slice(Unkeyed(SortDesc(Keyed(totals, SelfKey))), TopPartners))

\* part_000:200-201
ConcentrationRisk(top3Sum, exports, imports) ==
  LET totalVol == Add(exports, imports)
  IN  IF Gt(totalVol, Num(0)) THEN Mul(Div(top3Sum, totalVol), Num(100)) ELSE Num(0)

\* part_000:203-208
HistoryMap(rows) ==
  FoldLeft(LAMBDA acc, row :
             LET key == ToStr(row.Year)
                 cur == IF MapHas(acc, key) THEN MapGet(acc, key)
                        ELSE [year |-> row.Year, exports |-> Num(0), imports |-> Num(0)]
                 e1  == IF FlowIncludes(row, <<"E","x","p","o","r","t">>)
                        THEN [cur EXCEPT !.exports = Add(@, row.Value)] ELSE cur
                 e2  == IF FlowIncludes(row, <<"I","m","p","o","r","t">>)
                        THEN [e1 EXCEPT !.imports = Add(@, row.Value)] ELSE e1
             IN  MapPut(acc, key, e2),
           <<>>, rows)

HistoryYearKey(p) == p.year

\* A history built from the selected year's records alone.
HistoryOfYear(td) ==
  Unkeyed(SortAsc(Keyed(ObjectValues(HistoryMap(CurrentYearDataOf(td, selectedYear))),
                        HistoryYearKey)))

\* part_000:209
HistoryOf(td) == Unkeyed(SortAsc(Keyed(ObjectValues(HistoryMap(td)), HistoryYearKey)))

\* part_000:212-216
Waterfall(exports, imports) ==
  << [name |-> "Exports", value |-> exports,      fill |-> "export"],
     [name |-> "Imports", value |-> Neg(imports), fill |-> "import"],
     [name |-> "Net",     value |-> Sub(exports, imports),
      fill |-> IF Gt(Sub(exports, imports), Num(0)) THEN "export" ELSE "import"] >>

\* part_000:330  the class of the Net Balance card
NetCardClass(net) ==
  IF Ge(net, Num(0)) THEN "text-emerald-600" ELSE "text-red-500"

\* part_000:187-219
OverviewStatsOf(td, cyd) ==
  LET exports == ExportsOf(cyd)
      imports == ImportsOf(cyd)
  IN  [ waterfall         |-> Waterfall(exports, imports),
        history           |-> HistoryOf(td),
        exports           |-> exports,
        imports           |-> imports,
        net               |-> Sub(exports, imports),
        concentrationRisk |-> ConcentrationRisk(Top3Sum(cyd), exports, imports) ]

overviewStats == OverviewStatsOf(tradeData, currentYearData)

OverviewRaises(td) == \E i \in 1..Len(td) : FlowRaises(td[i])

-----------------------------------------------------------------------------
(* part_000:64-79 and 221-238  the forecast *)

\* sum of F(point) over data, where F is picked by name
SumOver(data, key, what) ==
  FoldLeft(LAMBDA acc, p :
             LET y == IF key = "exports" THEN p.exports ELSE p.imports
                 term == CASE what = "x"  -> p.year
                           [] what = "y"  -> y
                           [] what = "xy" -> Mul(p.year, y)
                           [] OTHER       -> Mul(p.year, p.year)
             IN  Add(acc, term),
           Num(0), data)

\* The fit without the short-history return.
calculateLinearRegressionUnguarded(data, key) ==
  LET n     == Len(data)
      sumX  == SumOver(data, key, "x")
      sumY  == SumOver(data, key, "y")
      sumXY == SumOver(data, key, "xy")
      sumXX == SumOver(data, key, "xx")
      slope == Div(Sub(Mul(Num(n), sumXY), Mul(sumX, sumY)),
                   Sub(Mul(Num(n), sumXX), Mul(sumX, sumX)))
  IN  [ slope |-> slope, intercept |-> Div(Sub(sumY, Mul(slope, sumX)), Num(n)) ]

\* A fit whose denominator lacks the square of the year sum.
calculateLinearRegressionNoSquare(data, key) ==
  LET n     == Len(data)
      sumX  == SumOver(data, key, "x")
      sumY  == SumOver(data, key, "y")
      sumXY == SumOver(data, key, "xy")
      sumXX == SumOver(data, key, "xx")
      slope == Div(Sub(Mul(Num(n), sumXY), Mul(sumX, sumY)), Mul(Num(n), sumXX))
  IN  IF n < 2
      THEN [ slope |-> Num(0),
             intercept |-> IF n > 0
                           THEN (IF key = "exports" THEN data[1].exports ELSE data[1].imports)
                           ELSE Num(0) ]
      ELSE [ slope |-> slope, intercept |-> Div(Sub(sumY, Mul(slope, sumX)), Num(n)) ]

\* part_000:64-79
calculateLinearRegression(data, key) ==
  LET n == Len(data)
  IN  IF n < 2
      THEN [ slope |-> Num(0),
             intercept |-> IF n > 0
                           THEN (IF key = "exports" THEN data[1].exports ELSE data[1].imports)
                           ELSE Num(0) ]
      ELSE LET sumX  == SumOver(data, key, "x")
               sumY  == SumOver(data, key, "y")
               sumXY == SumOver(data, key, "xy")
               sumXX == SumOver(data, key, "xx")
               slope == Div(Sub(Mul(Num(n), sumXY), Mul(sumX, sumY)),
                            Sub(Mul(Num(n), sumXX), Mul(sumX, sumX)))
           IN  [ slope |-> slope,
                 intercept |-> Div(Sub(sumY, Mul(slope, sumX)), Num(n)) ]

\* A projection whose exports follow the imports fit as well.
ProjectionOneFit(year, expReg, impReg) ==
  [ year       |-> year,
    exports    |-> Add(Mul(impReg.slope, year), expReg.intercept),
    imports    |-> Add(Mul(impReg.slope, year), impReg.intercept),
    isForecast |-> TRUE ]

\* part_000:231-236
Projection(year, expReg, impReg) ==
  [ year       |-> year,
    exports    |-> Add(Mul(expReg.slope, year), expReg.intercept),
    imports    |-> Add(Mul(impReg.slope, year), impReg.intercept),
    isForecast |-> TRUE ]

\* A forecast of one projected point.
ForecastDataOneStep(history) ==
  IF Len(history) = 0 THEN <<>>
  ELSE history \o << Projection(Add(history[Len(history)].year, Num(1)),
                                calculateLinearRegression(history, "exports"),
                                calculateLinearRegression(history, "imports")) >>

\* part_000:221-238
ForecastDataOf(history) ==
  IF Len(history) = 0 THEN <<>>
  ELSE LET expReg   == calculateLinearRegression(history, "exports")
           impReg   == calculateLinearRegression(history, "imports")
           lastYear == history[Len(history)].year
       IN  history \o << Projection(Add(lastYear, Num(1)), expReg, impReg),
                         Projection(Add(lastYear, Num(2)), expReg, impReg) >>

forecastData == ForecastDataOf(overviewStats.history)

-----------------------------------------------------------------------------
(* part_000:240-277  the grid, commodity and geography views *)

GridLimit == 100

\* part_000:242-244  the filter callback; partner and commodity are truthy
\* in every normalized row.
GridMatch(row, term) ==
  \/ Includes(ToLowerCase(row.Partner.s), term)
  \/ Includes(ToLowerCase(row.Commodity.s), term)

\* part_000:240-246
FilteredGridDataOf(cyd, search) ==
  Slice(SelectSeq(cyd, LAMBDA row : GridMatch(row, ToLowerCase(search))), GridLimit)

filteredGridData == FilteredGridDataOf(currentYearData, searchTerm)

\* .toLowerCase on a partner that is no string.
GridRaises(cyd) == \E i \in 1..Len(cyd) : ~IsString(cyd[i].Partner)

\* .split(';')[0]
RECURSIVE BeforeSemicolon(_)
BeforeSemicolon(cs) == IF cs = <<>> \/ Head(cs) = ";" THEN <<>>
                       ELSE <<Head(cs)>> \o BeforeSemicolon(Tail(cs))

\* .replace(/^\d+\s*-\s*/, '')
StripCode(cs) ==
  LET code  == TakeDigits(cs)
      after == DropSpaces(SubSeq(cs, Len(code) + 1, Len(cs)))
  IN  IF code # <<>> /\ after # <<>> /\ Head(after) = "-"
      THEN DropSpaces(Tail(after)) ELSE cs

\* part_000:252
CleanName(rawName) == StripCode(BeforeSemicolon(rawName))

\* part_000:249-257
CommodityGroups(rows) ==
  FoldLeft(LAMBDA acc, row :
             LET name == CleanName(row.Commodity.s)
                 cur  == IF MapHas(acc, name) THEN MapGet(acc, name)
                         ELSE [name |-> name, value |-> Num(0), weight |-> Num(0)]
             IN  MapPut(acc, name,
                        [cur EXCEPT !.value  = Add(@, row.Value),
                                    !.weight = Add(@, Or(row.Weight, Num(0)))]),
           <<>>, rows)

\* A comparator that reads the weight in place of the value.
ValueKeyWeight(g) == g.weight

\* part_000:258
ValueKey(g) == g.value
Top10 == 10
Top30 == 30

\* part_000:248-261
CommodityStatsOf(cyd) ==
  LET sorted == Unkeyed(SortDesc(Keyed(ObjectValues(CommodityGroups(cyd)), ValueKey)))
      sized  == Slice(sorted, Top30)
  IN  [ top10 |-> Slice(sorted, Top10),
        all   |-> [i \in 1..Len(sized) |->
                     [name |-> sized[i].name, value |-> sized[i].value,
                      weight |-> sized[i].weight, size |-> sized[i].value]] ]

commodityStats == CommodityStatsOf(currentYearData)

\* A grouping that keeps the last value of each group in place of the sum.
GeoGroupsLastValue(rows, by) ==
  FoldLeft(LAMBDA acc, row :
             LET name == IF by = "Partner" THEN row.Partner ELSE row.Region
                 key  == ToStr(name)
                 cur  == IF MapHas(acc, key) THEN MapGet(acc, key)
                         ELSE [name |-> name, exports |-> Num(0), imports |-> Num(0)]
                 e1   == IF FlowIncludes(row, <<"E","x","p","o","r","t">>)
                         THEN [cur EXCEPT !.exports = row.Value] ELSE cur
                 e2   == IF FlowIncludes(row, <<"I","m","p","o","r","t">>)
                         THEN [e1 EXCEPT !.imports = row.Value] ELSE e1
             IN  MapPut(acc, key, e2),
           <<>>, rows)

\* part_000:266-272  grouped by partner (by = "Partner") or region
GeoGroups(rows, by) ==
  FoldLeft(LAMBDA acc, row :
             LET name == IF by = "Partner" THEN row.Partner ELSE row.Region
                 key  == ToStr(name)
                 cur  == IF MapHas(acc, key) THEN MapGet(acc, key)
                         ELSE [name |-> name, exports |-> Num(0), imports |-> Num(0)]
                 e1   == IF FlowIncludes(row, <<"E","x","p","o","r","t">>)
                         THEN [cur EXCEPT !.exports = Add(@, row.Value)] ELSE cur
                 e2   == IF FlowIncludes(row, <<"I","m","p","o","r","t">>)
                         THEN [e1 EXCEPT !.imports = Add(@, row.Value)] ELSE e1
             IN  MapPut(acc, key, e2),
           <<>>, rows)

\* A comparator that reads the exports alone.
VolumeKeyExports(g) == g.exports

\* part_000:274-275
VolumeKey(g) == Add(g.exports, g.imports)

\* part_000:263-277
GeoStatsOf(cyd) ==
  [ partners |-> Slice(Unkeyed(SortDesc(Keyed(ObjectValues(GeoGroups(cyd, "Partner")),
                                               VolumeKey))), Top10),
    regions  |-> Unkeyed(SortDesc(Keyed(ObjectValues(GeoGroups(cyd, "Region")),
                                        VolumeKey))) ]

geoStats == GeoStatsOf(currentYearData)

-----------------------------------------------------------------------------
(* The record-driven App as a state machine (part_000:118-277) *)

Tabs == {"overview", "forecast", "commodities", "partners", "regions", "economics", "data"}

\* One render runs every memo in order; an exception in any of them leaves
\* the component tree unmounted (there is no error boundary).
RenderRaises(sel) ==
  \/ TradeDataRaises(tradeDataRawInput)
  \/ WbDataRaises(wbDataRawInput)
  \/ OverviewRaises(tradeData)
  \/ GridRaises(CurrentYearDataOf(tradeData, sel))

Rendered(sel) == IF RenderRaises(sel) THEN "crashed" ELSE "ok"

\* part_000:176-180: the effect still has a year to set.
EffectPending == Len(availableYears) > 0 /\ ~Truthy(selectedYear)

PayloadIdle ==
  /\ loading = TRUE /\ dashboardData = Null /\ wbDataState = ArrayOf(<<>>)
  /\ dashRes = Undef /\ wbRes = Undef
PureIdle    == fnName = "none" /\ fnArg = Undef /\ fnOut = Undef

\* The first render.
Mount ==
  /\ status = "mounting"
  /\ status' = Rendered(selectedYear)
  /\ UNCHANGED <<tradeDataRawInput, wbDataRawInput, activeTab, selectedYear, searchTerm,
                 loading, dashboardData, wbDataState, dashRes, wbRes,
                 fnName, fnArg, fnOut>>

\* part_000:176-180, and the render that the state change causes.
DefaultYear ==
  /\ status = "ok"
  /\ EffectPending
  /\ selectedYear' = availableYears[1]
  /\ status' = Rendered(selectedYear')
  /\ UNCHANGED <<tradeDataRawInput, wbDataRawInput, activeTab, searchTerm,
                 loading, dashboardData, wbDataState, dashRes, wbRes,
                 fnName, fnArg, fnOut>>

\* part_000:314-321: the year <select>, one <option> per available year.
SelectYear(i) ==
  /\ status = "ok"
  /\ ~EffectPending
  /\ activeTab \notin {"economics", "forecast"}
  /\ i \in 1..Len(availableYears)
  /\ selectedYear' = parseInt(Str(ToStr(availableYears[i])))
  /\ status' = Rendered(selectedYear')
  /\ UNCHANGED <<tradeDataRawInput, wbDataRawInput, activeTab, searchTerm,
                 loading, dashboardData, wbDataState, dashRes, wbRes,
                 fnName, fnArg, fnOut>>

\* part_000:301
SetActiveTab(tab) ==
  /\ status = "ok"
  /\ ~EffectPending
  /\ activeTab' = tab
  /\ status' = Rendered(selectedYear)
  /\ UNCHANGED <<tradeDataRawInput, wbDataRawInput, selectedYear, searchTerm,
                 loading, dashboardData, wbDataState, dashRes, wbRes,
                 fnName, fnArg, fnOut>>

\* part_000:356: the search box of the data tab.
SetSearchTerm(term) ==
  /\ status = "ok"
  /\ ~EffectPending
  /\ activeTab = "data"
  /\ searchTerm' = term
  /\ status' = Rendered(selectedYear)
  /\ UNCHANGED <<tradeDataRawInput, wbDataRawInput, activeTab, selectedYear,
                 loading, dashboardData, wbDataState, dashRes, wbRes,
                 fnName, fnArg, fnOut>>

-----------------------------------------------------------------------------
(* Inputs *)

MaxRows == 2

\* All arrays of at most MaxRows rows drawn from `rows`.
ArraysOver(rows) == { ArrayOf(s) : s \in UNION { [1..n -> rows] : n \in 0..MaxRows } }

\* Inputs that are not arrays: null, undefined, an object, a string, a number.
NonArrays == { Null, Undef, ObjVal, Str(<<"r","o","w","s">>), Num(7) }

\* Rows of the two upstream schemas, the shapes of the normalizer's cases.
RowBase ==
  Row([ Year |-> Num(2020), Flow_Description |-> Str(<<"E","x","p","o","r","t">>),
        Partner_Country |-> Str(<<"I","t","a","l","y">>), Traded_Commodities |-> Str(<<"1","2"," ","-"," ","O","i","l">>),
        Trade_Value |-> Str(<<"1",",","0","0","0">>), WeightofTradedGoods |-> Num(5) ])
RowAlt ==
  Row([ year_of_trade |-> Str(<<"2","0","2","1">>), flow_description |-> Str(<<"I","m","p","o","r","t">>),
        partner_country_name |-> Str(<<"C","h","i","n","a">>),
        commodity_description |-> Str(<<"E","l","e","c","t","r","o","n","i","c","s">>), Trade_Value |-> Num(500) ])
WithField(row, key, val) ==
  Row([k \in DOMAIN row.f \cup {key} |-> IF k = key THEN val ELSE row.f[k]])
RowYearMissing ==
  Row([ Flow_Description |-> Str(<<"E","x","p","o","r","t">>), Partner_Country |-> Str(<<"I","t","a","l","y">>),
        Traded_Commodities |-> Str(<<"1","2"," ","-"," ","O","i","l">>), Trade_Value |-> Num(9) ])

NormRows ==
  { RowBase, RowAlt, RowYearMissing, NullRow,
    WithField(RowBase, "Year", Num(0)),
    WithField(RowBase, "Year", Num(-3)),
    WithField(RowBase, "Year", Str(<<"a","b","c">>)),
    WithField(RowAlt, "year_of_trade", Null),
    WithField(RowBase, "Traded_Commodities", Str(<<"A","L","L"," ","C","O","M","M","O","D","I","T","I","E","S">>)),
    WithField(RowAlt, "commodity_description", Str(<<"T","o","t","a","l"," ","-"," ","A","l","l"," ","C","o","m","m","o","d","i","t","i","e","s",";"," ","x">>)),
    WithField(WithField(RowBase, "Year", Num(0)), "Traded_Commodities", Num(5)),
    WithField(RowBase, "Traded_Commodities", Num(5)),
    WithField(RowBase, "Flow_Description", Num(7)),
    WithField(RowBase, "Partner_Country", True),
    WithField(RowAlt, "Trade_Value", Str(<<"n","/","a">>)) }

TradeRow(year, flow, partner, commodity, value) ==
  Row([ Year |-> Num(year), Flow_Description |-> Str(flow),
        Partner_Country |-> Str(partner), Traded_Commodities |-> Str(commodity),
        Trade_Value |-> Num(value), WeightofTradedGoods |-> Num(1) ])

AggRows ==
  { TradeRow(2020, <<"E","x","p","o","r","t">>, <<"I","t","a","l","y">>, <<"1","2"," ","-"," ","O","i","l">>, 3),
    TradeRow(2020, <<"I","m","p","o","r","t">>, <<"C","h","i","n","a">>, <<"E","l","e","c","t","r","o","n","i","c","s">>, 2),
    TradeRow(2020, <<"R","e","-","e","x","p","o","r","t">>, <<"U","S","A">>, <<"1","2"," ","-"," ","O","i","l",";"," ","c","r","u","d","e">>, 5),
    TradeRow(2020, <<"R","e","-","I","m","p","o","r","t"," ","o","f"," ","E","x","p","o","r","t">>, <<"I","t","a","l","y">>, <<"E","l","e","c","t","r","o","n","i","c","s">>, 1),
    TradeRow(2021, <<"E","x","p","o","r","t">>, <<"C","h","i","n","a">>, <<"2","7"," ","-"," ","F","u","e","l">>, 4),
    TradeRow(2021, <<"I","m","p","o","r","t">>, <<"I","t","a","l","y">>, <<"1","2"," ","-"," ","O","i","l">>, 1),
    TradeRow(2021, <<"D","o","m","e","s","t","i","c"," ","E","x","p","o","r","t">>, <<"A","t","l","a","n","t","i","s">>, <<"E","l","e","c","t","r","o","n","i","c","s">>, 0),
    RowAlt }

WbRow(year, code, value) ==
  Row([ Year |-> Num(year), Indicator_Code |-> Str(code), Indicator_Value |-> Str(value) ])

WbSample ==
  ArrayOf(<< WbRow(2021, <<"N","Y",".","G","D","P",".","M","K","T","P",".","K","D",".","Z","G">>, <<"4",".","5">>),
             WbRow(2021, <<"F","P",".","C","P","I",".","T","O","T","L",".","Z","G">>, <<"6",".","2">>) >>)

\* Two rows of one year, an export to Italy whose value is a text with
\* thousands separators and an import from China whose value is a number,
\* each in the first (alt = FALSE) or the second upstream spelling.
ScenarioExport(alt) ==
  IF alt
  THEN Row([ year_of_trade |-> Num(2020), flow_description |-> Str(<<"E","x","p","o","r","t">>),
             partner_country_name |-> Str(<<"I","t","a","l","y">>),
             commodity_description |-> Str(<<"1","2"," ","-"," ","O","i","l">>), Trade_Value |-> Str(<<"1",",","0","0","0",",","0","0","0">>) ])
  ELSE Row([ Year |-> Num(2020), Flow_Description |-> Str(<<"E","x","p","o","r","t">>),
             Partner_Country |-> Str(<<"I","t","a","l","y">>),
             Traded_Commodities |-> Str(<<"1","2"," ","-"," ","O","i","l">>), Trade_Value |-> Str(<<"1",",","0","0","0",",","0","0","0">>) ])
ScenarioImport(alt) ==
  IF alt
  THEN Row([ year_of_trade |-> Num(2020), flow_description |-> Str(<<"I","m","p","o","r","t">>),
             partner_country_name |-> Str(<<"C","h","i","n","a">>),
             commodity_description |-> Str(<<"E","l","e","c","t","r","o","n","i","c","s">>), Trade_Value |-> Num(500000) ])
  ELSE Row([ Year |-> Num(2020), Flow_Description |-> Str(<<"I","m","p","o","r","t">>),
             Partner_Country |-> Str(<<"C","h","i","n","a">>),
             Traded_Commodities |-> Str(<<"E","l","e","c","t","r","o","n","i","c","s">>), Trade_Value |-> Num(500000) ])
ScenarioInputs ==
  { ArrayOf(<<ScenarioExport(a), ScenarioImport(b)>>) : a, b \in BOOLEAN }

\* Rows of one year with one value, so that every two groups tie; two of the
\* commodity and partner texts are strings of decimal digits.
TieLen == 3
TieRows ==
  { TradeRow(2020, <<"E","x","p","o","r","t">>, <<"I","t","a","l","y">>, <<"O","i","l">>, 3),
    TradeRow(2020, <<"E","x","p","o","r","t">>, <<"8","1","8">>, <<"2","7">>, 3),
    TradeRow(2020, <<"I","m","p","o","r","t">>, <<"C","h","i","n","a">>, <<"G","a","s">>, 3),
    TradeRow(2020, <<"I","m","p","o","r","t">>, <<"4","0">>, <<"9">>, 3) }
TieInputs == { ArrayOf(s) : s \in UNION { [1..n -> TieRows] : n \in 2..TieLen } }

SearchTerms == { <<>>, <<"O","i","l">>, <<"i","t","a">> }

-----------------------------------------------------------------------------
(* Specifications of the record-driven App *)

InitApp(tradeInputs, wbInputs) ==
  /\ tradeDataRawInput \in tradeInputs
  /\ wbDataRawInput \in wbInputs
  /\ activeTab = "overview"
  /\ selectedYear = Null
  /\ searchTerm = <<>>
  /\ status = "mounting"
  /\ PayloadIdle
  /\ PureIdle

Next ==
  \/ Mount
  \/ DefaultYear
  \/ \E i \in 1..MaxRows : SelectYear(i)
  \/ \E tab \in Tabs : SetActiveTab(tab)
  \/ \E term \in SearchTerms : SetSearchTerm(term)

\* Well-formed rows of both schemas: the aggregation views.
Init == InitApp(ArraysOver(AggRows) \cup ScenarioInputs \cup TieInputs, {WbSample})
Spec == Init /\ [][Next]_vars

\* Malformed rows and inputs that are no arrays: the normalizer.
InitNorm ==
  \/ InitApp(ArraysOver(NormRows), {WbSample})
  \/ InitApp(NonArrays, NonArrays)
  \/ InitApp({ArrayOf(<<RowBase>>)}, NonArrays)
SpecNorm == InitNorm /\ [][Next]_vars

\* React runs the first render of a mounted component and, after a render that
\* committed, its effects; neither waits for the user.

\* A step out of the mounting status. Mount is the one action of Next that
\* takes such a step, and it is enabled exactly while status = "mounting".
MountRuns == status = "mounting" /\ status' \in {"ok", "crashed"}

\* Weak fairness of DefaultYear, which is enabled exactly while the effect has
\* a year to set after a render that committed.
EffectRuns ==
  \/ []<>(~(status = "ok" /\ EffectPending))
  \/ []<><<DefaultYear>>_vars

Fairness == WF_status(MountRuns) /\ EffectRuns

SpecLive     == Spec /\ Fairness
SpecNormLive == SpecNorm /\ Fairness

-----------------------------------------------------------------------------
(* Inputs long enough for the limits of 3, 10, 30 and 100 entries *)

MaxLarge == 140

\* The partner of the k-th kind: four names of the region table, then names
\* outside it.
LargePartner(k) ==
  CASE k = 0 -> <<"C","h","i","n","a">>
    [] k = 1 -> <<"I","t","a","l","y">>
    [] k = 2 -> <<"U","S","A">>
    [] k = 3 -> <<"E","g","y","p","t">>
    [] OTHER -> <<"P">> \o IntToDigits(k)

\* The i-th row of a series with `kinds` distinct partners and commodities:
\* every seventh row is of 2021, every third an import, every tenth gas.
LargeRow(i, kinds) ==
  Row([ Year |-> Num(IF i % 7 = 0 THEN 2021 ELSE 2020),
        Flow_Description |-> Str(IF i % 3 = 0 THEN <<"I","m","p","o","r","t">> ELSE <<"E","x","p","o","r","t">>),
        Partner_Country |-> Str(LargePartner(i % kinds)),
        Traded_Commodities |->
          Str(IntToDigits(i) \o <<" ","-"," ">> \o (IF i % 10 = 0 THEN <<"G","a","s"," ">> ELSE <<"O","i","l"," ">>)
              \o IntToDigits(i % kinds) \o <<";"," ","c","r","u","d","e">>),
        Trade_Value |-> Num((i * 7) % 13),
        WeightofTradedGoods |-> Num(i % 4) ])

LargeArray(n, kinds) == ArrayOf([i \in 1..n |-> LargeRow(i, kinds)])

\* Lengths on both sides of each limit, and few or many kinds.
LargeSizes == {0, Top10 + 1, Top10 + 2, Top30 + 5, Top30 + 6, MaxLarge}
LargeKinds == {TopPartners + 1, Top30 + 10}
LargeInputs == { LargeArray(n, k) : n \in LargeSizes, k \in LargeKinds }

InitLarge == InitApp(LargeInputs, {WbSample})
SpecLarge == InitLarge /\ [][Next]_vars

-----------------------------------------------------------------------------
(* The precomputed-payload App (src/my-dashboard-app/src/App.jsx:123-232) *)

\* The characters drawn, in code-unit order.
Ascii == <<" ", "-", ".", "/", "0","1","2","3","4","5","6","7","8","9", ";",
           "A","B","C","D","E","F","G","H","I","J","K","L","M",
           "N","O","P","Q","R","S","T","U","V","W","X","Y","Z", "_",
           "a","b","c","d","e","f","g","h","i","j","k","l","m",
           "n","o","p","q","r","s","t","u","v","w","x","y","z">>
CharCode(c) == CHOOSE i \in 1..Len(Ascii) : Ascii[i] = c

\* a < b as strings (the default comparison of Array.prototype.sort).
RECURSIVE LexLess(_, _)
LexLess(a, b) ==
  IF b = <<>> THEN FALSE
  ELSE IF a = <<>> THEN TRUE
  ELSE IF Head(a) = Head(b) THEN LexLess(Tail(a), Tail(b))
  ELSE CharCode(Head(a)) < CharCode(Head(b))

InsertLex(x, s) == InsertAt(x, s, { i \in 1..Len(s) : LexLess(x, s[i]) })

\* .sort()
SortLex(s) == FoldLeft(LAMBDA sorted, x : InsertLex(x, sorted), <<>>, s)

\* .reverse()
Reverse(s) == [i \in 1..Len(s) |-> s[Len(s) + 1 - i]]

\* Object.keys: the order of ObjectValues.
ObjectKeys(m) ==
  LET indexed == SortByIndex(SelectSeq(m, LAMBDA e : IsArrayIndex(e.key)))
      named   == SelectSeq(m, LAMBDA e : ~IsArrayIndex(e.key))
      all     == indexed \o named
  IN  [i \in 1..Len(all) |-> all[i].key]

\* ToNumber(string): the whole trimmed text must be a decimal literal; the
\* empty text is 0.
StringToNumber(cs) ==
  LET text  == Trim(cs)
      body  == Unsigned(text)
      whole == TakeDigits(body)
      rest  == SubSeq(body, Len(whole) + 1, Len(body))
      frac  == IF rest # <<>> /\ Head(rest) = "." THEN TakeDigits(Tail(rest)) ELSE <<>>
      used  == Len(whole) + (IF rest # <<>> /\ Head(rest) = "." THEN 1 + Len(frac) ELSE 0)
  IN  IF text = <<>> THEN Num(0)
      ELSE IF used = Len(body) THEN parseFloat(text) ELSE NaN

\* The JSON payload: null, or an object with (maybe) yearly_data, trends and
\* raw_sample.
Payload(yearly, trends, sample) ==
  [t |-> "object", yearly_data |-> yearly, trends |-> trends, raw_sample |-> sample]
YearlyData(entries)     == [t |-> "object", entries |-> entries]
YearEntry(key, kpi, partners) ==
  [key |-> key, val |-> [t |-> "object", kpi |-> kpi, partners |-> partners]]
Kpi(e, i, n) == [exports |-> Num(e), imports |-> Num(i), net |-> Num(n)]
Partner(name, e, i) == [name |-> Str(name), exports |-> Num(e), imports |-> Num(i)]
TrendPoint(y, e, i) == [year |-> Num(y), exports |-> Num(e), imports |-> Num(i)]

\* What a fetch settles to: rejected, a body that is not JSON, or JSON.
Rejected     == [kind |-> "rejected", body |-> Null]
InvalidJson  == [kind |-> "invalid", body |-> Null]
JsonOf(body) == [kind |-> "json", body |-> body]

\* dashboardData.yearly_data is missing: Object.keys(undefined) and
\* undefined[selectedYear] raise.
YearlyMissing(dd) == ~Truthy(dd.yearly_data)

\* App.jsx:159-162
CurrentYearStatsOf(dd, sel) ==
  IF ~Truthy(dd) \/ ~Truthy(sel) THEN Null
  ELSE IF MapHas(dd.yearly_data.entries, ToStr(sel))
       THEN MapGet(dd.yearly_data.entries, ToStr(sel)) ELSE Undef

currentYearStats == CurrentYearStatsOf(dashboardData, selectedYear)

KeyNumber(key) == StringToNumber(key)

\* App.jsx:164-167
AvailableYearsPOf(dd) ==
  IF ~Truthy(dd) THEN <<>>
  ELSE Unkeyed(SortDesc(Keyed(ObjectKeys(dd.yearly_data.entries), KeyNumber)))

\* App.jsx:173-177
WaterfallP(kpi) ==
  << [name |-> "Exports", value |-> kpi.exports,      fill |-> "export"],
     [name |-> "Imports", value |-> Neg(kpi.imports), fill |-> "import"],
     [name |-> "Net",     value |-> kpi.net,
      fill |-> IF Gt(kpi.net, Num(0)) THEN "export" ELSE "import"] >>

PartnerVolume(p) == Add(p.exports, p.imports)

\* App.jsx:179-182
ConcentrationRiskP(kpi, partners) ==
  LET sortedPartners == Unkeyed(SortDesc(Keyed(partners, PartnerVolume)))
      top             == Slice(sortedPartners, TopPartners)
      top3Sum         == SumSeq([i \in 1..Len(top) |-> PartnerVolume(top[i])])
      totalVol        == Add(kpi.exports, kpi.imports)
  IN  IF Gt(totalVol, Num(0)) THEN Mul(Div(top3Sum, totalVol), Num(100)) ELSE Num(0)

\* App.jsx:169-185
OverviewStatsPOf(cys) ==
  IF ~Truthy(cys) THEN Null
  ELSE [ t |-> "object",
         waterfall         |-> WaterfallP(cys.kpi),
         concentrationRisk |-> ConcentrationRiskP(cys.kpi, cys.partners),
         kpi               |-> cys.kpi ]

overviewStatsP == OverviewStatsPOf(currentYearStats)

\* App.jsx:194: history[history.length - 1].year on an empty array.
ForecastPRaises(dd) == Truthy(dd) /\ Truthy(dd.trends) /\ Len(dd.trends.rows) = 0

\* App.jsx:187-204
ForecastDataPOf(dd) ==
  IF ~Truthy(dd) \/ ~Truthy(dd.trends) THEN <<>>
  ELSE ForecastDataOf(dd.trends.rows)

\* App.jsx:217-218: code.includes(...) on a code that is truthy and no string.
FormattedWBRowRaises(row) ==
  \/ RowAccessRaises(row)
  \/ /\ Truthy(parseInt(Or(Get(row, "Year"), Get(row, "year_of_trade"))))
     /\ Truthy(Or(Get(row, "Indicator_Code"), Get(row, "indicator_code")))
     /\ ~IsString(Or(Get(row, "Indicator_Code"), Get(row, "indicator_code")))

\* App.jsx:207-209: .length read on null or undefined; .forEach on a string.
FormattedWBRaises(wb) ==
  \/ wb.t \in {"null", "undefined"}
  \/ wb.t = "string" /\ Len(wb.s) > 0
  \/ IsArray(wb) /\ \E i \in 1..Len(wb.rows) : FormattedWBRowRaises(wb.rows[i])

\* App.jsx:209-219  one pass of the forEach callback over `years`
FormattedWBStep(years, row) ==
  LET y == parseInt(Or(Get(row, "Year"), Get(row, "year_of_trade")))
      key   == ToStr(y)
      entry == IF MapHas(years, key) THEN MapGet(years, key)
               ELSE [Year |-> y, GDP |-> Num(0), Inflation |-> Num(0)]
      code  == Or(Get(row, "Indicator_Code"), Get(row, "indicator_code"))
      val   == parseFloat(ToStr(Or(Get(row, "Indicator_Value"), Get(row, "indicator_value"))))
      e1    == IF Truthy(code) /\ (Includes(code.s, <<"G","D","P">>) \/ Includes(code.s, <<"N","Y",".","G","D","P">>))
               THEN [entry EXCEPT !.GDP = val] ELSE entry
      e2    == IF Truthy(code) /\ (Includes(code.s, <<"C","P","I">>) \/ Includes(code.s, <<"F","P",".","C","P","I">>))
               THEN [e1 EXCEPT !.Inflation = val] ELSE e1
  IN  IF ~Truthy(y) THEN years ELSE MapPut(years, key, e2)

FormattedWBFold(rows) == FoldLeft(FormattedWBStep, <<>>, rows)

\* App.jsx:206-221
FormattedWBOf(wb) ==
  IF ~IsArray(wb) \/ Len(wb.rows) = 0 THEN <<>>
  ELSE Unkeyed(SortAsc(Keyed(ObjectValues(FormattedWBFold(wb.rows)), WbYearKey)))

formattedWB == FormattedWBOf(wbDataState)

\* JSON.stringify of a string, number, boolean or null. The strings drawn hold
\* no character that is escaped.
JsonValue(v) ==
  CASE v.t = "string" -> <<"\"">> \o v.s \o <<"\"">>
    [] v.t = "number" -> IF IsNaN(v) THEN <<"n","u","l","l">> ELSE NumberToString(v)
    [] OTHER          -> ToStr(v)

\* The keys of a raw_sample row, in the order of the grid's columns.
SampleKeys ==
  << [key |-> "Year", text |-> <<"Y","e","a","r">>], [key |-> "Flow", text |-> <<"F","l","o","w">>],
     [key |-> "Partner", text |-> <<"P","a","r","t","n","e","r">>], [key |-> "Commodity", text |-> <<"C","o","m","m","o","d","i","t","y">>],
     [key |-> "Value", text |-> <<"V","a","l","u","e">>] >>

\* JSON.stringify(r): {"key":value,...} over the row's own properties.
JsonStringify(row) ==
  IF row.t # "object" THEN ToStr(row)
  ELSE LET own == SelectSeq(SampleKeys, LAMBDA k : k.key \in DOMAIN row.f)
           members == FoldLeft(LAMBDA acc, k :
                        (IF acc = <<>> THEN <<>> ELSE acc \o <<",">>)
                        \o <<"\"">> \o k.text \o <<"\"", ":">> \o JsonValue(row.f[k.key]),
                        <<>>, own)
       IN  <<"{">> \o members \o <<"}">>

\* App.jsx:365  the filter callback
SampleMatch(row, term) == Includes(ToLowerCase(JsonStringify(row)), ToLowerCase(term))

\* App.jsx:365  the rows of the data grid
DataRowsOf(dd, term) == SelectSeq(dd.raw_sample.rows, LAMBDA row : SampleMatch(row, term))

\* App.jsx:365: .filter on a raw_sample that is no array, row.Year on a null
\* row, row.Flow.includes on a Flow that is no string.
DataTabRaises(dd, term) ==
  \/ ~IsArray(dd.raw_sample)
  \/ \E i \in 1..Len(DataRowsOf(dd, term)) :
       \/ RowAccessRaises(DataRowsOf(dd, term)[i])
       \/ ~IsString(Get(DataRowsOf(dd, term)[i], "Flow"))

\* One render of App.jsx: every memo runs before the early returns; the
\* content of the active tab is built when the dashboard is shown. (Of the tab
\* contents, the data grid is modelled; the payloads drawn carry the fields
\* the other tabs read.)
RenderPRaises(dd, sel, wb, tab, term) ==
  \/ Truthy(dd) /\ (YearlyMissing(dd) \/ ForecastPRaises(dd))
  \/ FormattedWBRaises(wb)
  \/ /\ Truthy(dd) /\ ~YearlyMissing(dd) /\ Truthy(CurrentYearStatsOf(dd, sel))
     /\ tab = "data" /\ DataTabRaises(dd, term)

RenderedP(dd, sel, wb, tab, term) ==
  IF RenderPRaises(dd, sel, wb, tab, term) THEN "crashed" ELSE "ok"

\* The rows on display in the data grid.
dataRows ==
  IF status = "ok" /\ Truthy(dashboardData) /\ IsArray(dashboardData.raw_sample)
  THEN DataRowsOf(dashboardData, searchTerm) ELSE <<>>

\* The dashboard (not the loading or failure screen) is on display.
DashboardShown ==
  /\ status = "ok" /\ loading = FALSE
  /\ Truthy(dashboardData) /\ Truthy(currentYearStats)

\* App.jsx:147-148
LoadedYear(dashJson, sel) ==
  LET years == Reverse(SortLex(ObjectKeys(dashJson.yearly_data.entries)))
  IN  IF Len(years) > 0 THEN Str(years[1]) ELSE sel

\* App.jsx:132-157: both fetches settle and load() runs to its end; the
\* state updates of one run are rendered together. A rejected fetch or a body
\* that is no JSON raises before any state is set; a payload without
\* yearly_data raises at Object.keys, after the two data states are set.
Load ==
  /\ status = "ok" /\ loading = TRUE
  /\ loading' = FALSE
  /\ IF dashRes.kind = "json" /\ wbRes.kind = "json"
     THEN /\ dashboardData' = dashRes.body
          /\ wbDataState' = wbRes.body
          /\ selectedYear' = IF ~Truthy(dashRes.body) \/ YearlyMissing(dashRes.body)
                             THEN selectedYear
                             ELSE LoadedYear(dashRes.body, selectedYear)
     ELSE UNCHANGED <<dashboardData, wbDataState, selectedYear>>
  /\ status' = RenderedP(dashboardData', selectedYear', wbDataState', activeTab, searchTerm)
  /\ UNCHANGED <<tradeDataRawInput, wbDataRawInput, activeTab, searchTerm, dashRes, wbRes,
                 fnName, fnArg, fnOut>>

\* App.jsx:273-275
SelectYearP(i) ==
  /\ DashboardShown
  /\ activeTab \notin {"economics", "forecast"}
  /\ i \in 1..Len(AvailableYearsPOf(dashboardData))
  /\ selectedYear' = parseInt(Str(AvailableYearsPOf(dashboardData)[i]))
  /\ status' = RenderedP(dashboardData, selectedYear', wbDataState, activeTab, searchTerm)
  /\ UNCHANGED <<tradeDataRawInput, wbDataRawInput, activeTab, searchTerm,
                 loading, dashboardData, wbDataState, dashRes, wbRes,
                 fnName, fnArg, fnOut>>

\* App.jsx:256
SetActiveTabP(tab) ==
  /\ DashboardShown
  /\ activeTab' = tab
  /\ status' = RenderedP(dashboardData, selectedYear, wbDataState, tab, searchTerm)
  /\ UNCHANGED <<tradeDataRawInput, wbDataRawInput, selectedYear, searchTerm,
                 loading, dashboardData, wbDataState, dashRes, wbRes,
                 fnName, fnArg, fnOut>>

\* App.jsx:364
SetSearchTermP(term) ==
  /\ DashboardShown
  /\ activeTab = "data"
  /\ searchTerm' = term
  /\ status' = RenderedP(dashboardData, selectedYear, wbDataState, activeTab, term)
  /\ UNCHANGED <<tradeDataRawInput, wbDataRawInput, activeTab, selectedYear,
                 loading, dashboardData, wbDataState, dashRes, wbRes,
                 fnName, fnArg, fnOut>>

MaxYears == 2

TwoPartners == << Partner(<<"I","t","a","l","y">>, 3, 1), Partner(<<"C","h","i","n","a">>, 2, 2) >>
Trends      == ArrayOf(<< TrendPoint(2020, 5, 3), TrendPoint(2021, 4, 4) >>)

\* The precomputed statistics of one year, as the payload may carry them.
YearStats ==
  { [kpi |-> Kpi(5, 3, 2), partners |-> TwoPartners],
    [kpi |-> Kpi(4, 4, 0), partners |-> << Partner(<<"I","t","a","l","y">>, 4, 4) >>],
    [kpi |-> Kpi(0, 0, 0), partners |-> << >>],
    [kpi |-> Kpi(5, 3, 1), partners |-> TwoPartners],
    [kpi |-> Kpi(1, 1, 0), partners |-> TwoPartners] }

YearKeys == << <<"2","0","2","0">>, <<"2","0","2","1">>, <<"2","0","2","2">> >>

\* yearly_data with the first n year keys, each with drawn statistics.
YearlyOf(n) ==
  { YearlyData([i \in 1..n |-> YearEntry(YearKeys[i], st[i].kpi, st[i].partners)])
      : st \in [1..n -> YearStats] }

SampleRow(year, flow, partner, commodity, value) ==
  Row([ Year |-> Num(year), Flow |-> Str(flow), Partner |-> Str(partner),
        Commodity |-> Str(commodity), Value |-> Num(value) ])

RawSample ==
  ArrayOf(<< SampleRow(2020, <<"E","x","p","o","r","t">>, <<"I","t","a","l","y">>, <<"O","i","l">>, 3),
             SampleRow(2021, <<"I","m","p","o","r","t">>, <<"C","h","i","n","a">>, <<"E","l","e","c","t","r","o","n","i","c","s">>, 2),
             SampleRow(2021, <<"E","x","p","o","r","t">>, <<"U","S","A">>, <<"F","u","e","l"," ","o","i","l">>, 4) >>)

Payloads ==
  { Null, Payload(Undef, Undef, Undef), Payload(YearlyData(<<>>), ArrayOf(<<>>), RawSample) }
  \cup { Payload(yd, Trends, RawSample) : yd \in UNION { YearlyOf(n) : n \in 0..MaxYears } }
  \cup { Payload(yd, Trends, Undef) : yd \in YearlyOf(0) \cup YearlyOf(1) }

\* Indicator bodies: the sample, no rows, and JSON null.
WbPayloads == { WbSample, ArrayOf(<<>>), Null }

InitPayload ==
  /\ tradeDataRawInput = Null /\ wbDataRawInput = Null
  /\ activeTab = "overview" /\ selectedYear = Null /\ searchTerm = <<>>
  /\ status = "ok"
  /\ loading = TRUE
  /\ dashboardData = Null
  /\ wbDataState = ArrayOf(<<>>)
  /\ dashRes \in {Rejected, InvalidJson} \cup { JsonOf(p) : p \in Payloads }
  /\ wbRes \in {Rejected} \cup { JsonOf(w) : w \in WbPayloads }
  /\ PureIdle

NextPayload ==
  \/ Load
  \/ \E i \in 1..MaxYears : SelectYearP(i)
  \/ \E tab \in Tabs : SetActiveTabP(tab)
  \/ \E term \in SearchTerms : SetSearchTermP(term)

SpecPayload == InitPayload /\ [][NextPayload]_vars

\* Both fetches settle and load() runs to its end without waiting for the
\* user. Load is the one action of NextPayload that ends the loading, and it
\* is enabled exactly while the first render shows the loading screen.
LoadRuns == status = "ok" /\ loading = TRUE /\ loading' = FALSE

SpecPayloadLive == SpecPayload /\ WF_loading(LoadRuns)

-----------------------------------------------------------------------------
(* The pure helpers applied directly to drawn arguments *)

SafeParseFloatInputs ==
  { Num(5), Num(0), Num(-2), Rat(9, 2), NaN,
    Str(<<"1",",","0","0","0",",","0","0","0">>), Str(<<"1","0","0","0">>), Str(<<" ","1","2",".","5"," ">>), Str(<<"4",".","5">>), Str(<<"-","7">>),
    Str(<<"1",",","2",",","3">>), Str(<<"1","2","a","b","c">>), Str(<<".","5">>), Str(<<"a","b","c">>), Str(<<"n","/","a">>),
    Str(<<",">>), Str(<<" ">>), Str(<<>>), Null, Undef, True, False, ObjVal }

TableNames == { RegionTable[i][1] : i \in 1..Len(RegionTable) }

RegionInputs ==
  { Str(name) : name \in TableNames }
  \cup { Str(<<"A","t","l","a","n","t","i","s">>), Str(<<"i","t","a","l","y">>), Str(<<"I","T","A","L","Y">>), Str(<<" ","I","t","a","l","y">>), Str(<<"U","n","k","n","o","w","n">>),
         Str(<<"c","o","n","s","t","r","u","c","t","o","r">>), Str(<<"t","o","S","t","r","i","n","g">>), Str(<<"_","_","p","r","o","t","o","_","_">>),
         Str(<<>>), Null, Undef, Num(5), True, ObjVal }

ParseIntInputs ==
  { Num(2020), Num(0), Num(-3), Rat(4041, 2), NaN, Null, Undef, True, ObjVal,
    Str(<<"2","0","2","1">>), Str(<<" ","2","0","2","1">>), Str(<<"-","5">>), Str(<<"a","b","c">>), Str(<<"2","0","2","1","x">>), Str(<<>>) }

\* Histories: points of distinct ascending years with drawn metric values.
HistoryPoint(y, e, i) == [year |-> Num(y), exports |-> e, imports |-> i]
MetricValues == { Num(0), Num(5), Rat(7, 2) }

Histories ==
  { <<>> }
  \cup { <<HistoryPoint(2020, e, i)>> : e \in MetricValues, i \in MetricValues }
  \cup { <<HistoryPoint(2020, e, i), HistoryPoint(2021, f, j)>> :
           e \in MetricValues, i \in MetricValues, f \in MetricValues, j \in {Num(3)} }
  \cup { <<HistoryPoint(2018, e, Num(1)), HistoryPoint(2020, Num(4), i),
           HistoryPoint(2021, Num(6), Num(2))>> : e \in MetricValues, i \in MetricValues }

RegressionInputs ==
  { [data |-> h, key |-> k] : h \in Histories, k \in {"exports", "imports"} }

\* Histories of at least one point.
ForecastInputs == { ArrayOf(h) : h \in Histories \ { <<>> } }

\* Indicator rows: both spellings of both codes, a second GDP row of one
\* year, a code that contains "GDP" without being the growth code, a code
\* that contains both words, a row without code, a numeric zero value, the
\* lower-case schema, and a row without year.
WbRows ==
  { WbRow(2021, <<"N","Y",".","G","D","P",".","M","K","T","P",".","K","D",".","Z","G">>, <<"4",".","5">>),
    WbRow(2021, <<"F","P",".","C","P","I",".","T","O","T","L",".","Z","G">>, <<"6",".","2">>),
    WbRow(2020, <<"W","B","_","W","D","I","_","N","Y","_","G","D","P","_","M","K","T","P","_","K","D","_","Z","G">>, <<"3">>),
    WbRow(2021, <<"N","Y",".","G","D","P",".","M","K","T","P",".","K","D",".","Z","G">>, <<"1",".","5">>),
    WbRow(2020, <<"N","Y",".","G","D","P",".","P","C","A","P",".","C","D">>, <<"9">>),
    WbRow(2021, <<"G","D","P","_","P","E","R","_","C","P","I">>, <<"8">>),
    Row([ Year |-> Num(2020), Indicator_Value |-> Str(<<"7">>) ]),
    Row([ Year |-> Num(2020), Indicator_Code |-> Str(<<"N","Y",".","G","D","P",".","M","K","T","P",".","K","D",".","Z","G">>),
          Indicator_Value |-> Num(0) ]),
    Row([ year_of_trade |-> Str(<<"2","0","1","9">>), indicator_code |-> Str(<<"W","B","_","W","D","I","_","F","P","_","C","P","I","_","T","O","T","L","_","Z","G">>),
          Indicator_Value |-> Str(<<"2">>) ]),
    Row([ Indicator_Code |-> Str(<<"F","P",".","C","P","I",".","T","O","T","L",".","Z","G">>), Indicator_Value |-> Str(<<"5">>) ]) }

MaxWb == 3

WbInputs == { ArrayOf(s) : s \in UNION { [1..n -> WbRows] : n \in 0..MaxWb } }

\* The `years` object the callback finds: empty, or with records of earlier rows.
YearsBefore ==
  { <<>>,
    << [key |-> <<"2","0","2","0">>, val |-> [Year |-> Num(2020), GDP |-> Num(1), Inflation |-> Num(2)]] >>,
    << [key |-> <<"2","0","2","1">>, val |-> [Year |-> Num(2021), GDP |-> Num(0), Inflation |-> Num(6)]],
       [key |-> <<"2","0","2","0">>, val |-> [Year |-> Num(2020), GDP |-> Num(1), Inflation |-> Num(0)]] >> }

WbStepInputs == { [years |-> y, row |-> r] : y \in YearsBefore, r \in WbRows }

InitPure ==
  /\ tradeDataRawInput = Null /\ wbDataRawInput = Null
  /\ activeTab = "overview" /\ selectedYear = Null /\ searchTerm = <<>>
  /\ PayloadIdle
  /\ status = "called"
  /\ fnOut = Undef
  /\ \/ fnName = "safeParseFloat" /\ fnArg \in SafeParseFloatInputs
     \/ fnName = "getRegionFromCountry" /\ fnArg \in RegionInputs
     \/ fnName = "parseInt" /\ fnArg \in ParseIntInputs
     \/ fnName = "calculateLinearRegression" /\ fnArg \in RegressionInputs
     \/ fnName = "forecastData" /\ fnArg \in ForecastInputs
     \/ fnName \in {"wbData", "formattedWB"} /\ fnArg \in WbInputs
     \/ fnName \in {"wbData callback", "formattedWB callback"} /\ fnArg \in WbStepInputs

Apply(name, result) ==
  /\ status = "called"
  /\ fnName = name
  /\ fnOut' = result
  /\ status' = "returned"
  /\ UNCHANGED <<tradeDataRawInput, wbDataRawInput, activeTab, selectedYear, searchTerm,
                 loading, dashboardData, wbDataState, dashRes, wbRes,
                 fnName, fnArg>>

ApplySafeParseFloat       == Apply("safeParseFloat", safeParseFloat(fnArg))
ApplyGetRegionFromCountry == Apply("getRegionFromCountry", getRegionFromCountry(fnArg))
ApplyParseInt             == Apply("parseInt", parseInt(fnArg))

ApplyCalculateLinearRegression ==
  Apply("calculateLinearRegression", calculateLinearRegression(fnArg.data, fnArg.key))
\* the forecastData memo on a history given directly
ApplyForecastData         == Apply("forecastData", ArrayOf(ForecastDataOf(fnArg.rows)))

\* the two indicator memos on a raw input given directly
ApplyWbData               == Apply("wbData", ArrayOf(WbDataOf(fnArg)))
ApplyFormattedWB          == Apply("formattedWB", ArrayOf(FormattedWBOf(fnArg)))
\* their forEach callbacks on one row
ApplyWbStep               == Apply("wbData callback", WbStep(fnArg.years, fnArg.row))
ApplyFormattedWBStep      ==
  Apply("formattedWB callback", FormattedWBStep(fnArg.years, fnArg.row))

NextPure ==
  \/ ApplySafeParseFloat \/ ApplyGetRegionFromCountry \/ ApplyParseInt
  \/ ApplyCalculateLinearRegression \/ ApplyForecastData
  \/ ApplyWbData \/ ApplyFormattedWB \/ ApplyWbStep \/ ApplyFormattedWBStep
SpecPure == InitPure /\ [][NextPure]_vars

-----------------------------------------------------------------------------
(* Claims *)

\* What the claims say about a raw row, read off the row itself: its year and
\* commodity under whichever spelling the row uses.
RawYear(row) ==
  IF row.t # "object" THEN Undef
  ELSE IF "Year" \in DOMAIN row.f THEN row.f["Year"]
  ELSE IF "year_of_trade" \in DOMAIN row.f THEN row.f["year_of_trade"]
  ELSE Undef

RawCommodity(row) ==
  IF row.t # "object" THEN Undef
  ELSE IF "Traded_Commodities" \in DOMAIN row.f THEN row.f["Traded_Commodities"]
  ELSE IF "commodity_description" \in DOMAIN row.f THEN row.f["commodity_description"]
  ELSE Undef

AllDigits(cs) == cs # <<>> /\ \A i \in 1..Len(cs) : IsDigit(cs[i])

\* The year is a positive integer, as a number or as its decimal text.
PositiveIntegerYear(y) ==
  \/ y.t = "number" /\ y.d = 1 /\ y.n > 0
  \/ y.t = "string" /\ AllDigits(y.s) /\ DigitsToInt(y.s) > 0

\* The year is missing, not numeric, zero or negative.
UnusableYear(y) ==
  \/ y.t \in {"undefined", "null"}
  \/ y.t = "number" /\ (y.d = 0 \/ y.n <= 0)
  \/ y.t = "string" /\ ~AllDigits(y.s)
  \/ y.t = "string" /\ AllDigits(y.s) /\ DigitsToInt(y.s) = 0

YearNumber(y) == IF y.t = "number" THEN y.n ELSE DigitsToInt(y.s)

AllCommoditiesLine(row) ==
  /\ RawCommodity(row).t = "string"
  /\ Includes(ToLowerCase(RawCommodity(row).s), <<"a","l","l"," ","c","o","m","m","o","d","i","t","i","e","s">>)

KeptRow(row) == PositiveIntegerYear(RawYear(row)) /\ ~AllCommoditiesLine(row)

\* The years of the rows the claims keep, in input order.
RECURSIVE KeptYears(_)
KeptYears(rows) ==
  IF rows = <<>> THEN <<>>
  ELSE IF KeptRow(Head(rows)) THEN <<YearNumber(RawYear(Head(rows)))>> \o KeptYears(Tail(rows))
  ELSE KeptYears(Tail(rows))

NormalizedHere == IsArray(tradeDataRawInput) /\ ~TradeDataRaises(tradeDataRawInput)

\* C1: normalization and the views computed from it never raise, whatever the
\* rows hold (null rows, fields that are no strings), and every raw row gives
\* one record or none.
C1_NormalizationTotal ==
  /\ status # "crashed"
  /\ (status = "ok" /\ IsArray(tradeDataRawInput)) =>
       Len(tradeData) <= Len(tradeDataRawInput.rows)

C3_NoAllCommodities ==
  NormalizedHere =>
    /\ \A i \in 1..Len(tradeData) :
         ~Includes(ToLowerCase(tradeData[i].Commodity.s), <<"a","l","l"," ","c","o","m","m","o","d","i","t","i","e","s">>)
    /\ Len(tradeData) <=
         Cardinality({ i \in 1..Len(tradeDataRawInput.rows) :
                         ~AllCommoditiesLine(tradeDataRawInput.rows[i]) })

C3_Witness ==
  /\ status = "ok"
  /\ Len(tradeDataRawInput.rows) = 2
  /\ RawCommodity(tradeDataRawInput.rows[1]) = Str(<<"A","L","L"," ","C","O","M","M","O","D","I","T","I","E","S">>)
  /\ PositiveIntegerYear(RawYear(tradeDataRawInput.rows[1]))
  /\ RawCommodity(tradeDataRawInput.rows[2]) = Str(<<"1","2"," ","-"," ","O","i","l">>)
  /\ Len(tradeData) = 1
  /\ tradeData[1].Commodity = Str(<<"1","2"," ","-"," ","O","i","l">>)

\* C4: safeParseFloat never returns not-a-number: its result is a real number
\* for every input, and 0 for an input that is missing or does not parse.
C4_NeverNaN ==
  (fnName = "safeParseFloat" /\ status = "returned") =>
    /\ fnOut.t = "number"
    /\ ~IsNaN(fnOut)
    /\ (fnArg.t \in {"undefined", "null"} \/ IsNaN(fnArg)) => fnOut = Num(0)

\* C5: an input that is no array normalizes to the empty sequence and every
\* view degrades to zero or empty without raising; the same for the
\* indicator input.
C5_NonArrayDegrades ==
  /\ ~IsArray(tradeDataRawInput) =>
       /\ status # "crashed"
       /\ ~TradeDataRaises(tradeDataRawInput)
       /\ tradeData = <<>>
       /\ overviewStats.exports = Num(0)
       /\ overviewStats.imports = Num(0)
       /\ overviewStats.net = Num(0)
       /\ overviewStats.concentrationRisk = Num(0)
       /\ overviewStats.history = <<>>
       /\ forecastData = <<>>
       /\ commodityStats.top10 = <<>> /\ commodityStats.all = <<>>
       /\ geoStats.partners = <<>> /\ geoStats.regions = <<>>
       /\ filteredGridData = <<>>
  /\ ~IsArray(wbDataRawInput) =>
       ~WbDataRaises(wbDataRawInput) /\ wbData = <<>>

C5_Witness ==
  /\ tradeDataRawInput = ObjVal
  /\ wbDataRawInput = Str(<<"r","o","w","s">>)
  /\ status = "ok"
  /\ activeTab = "data"
  /\ searchTerm = <<"O","i","l">>

RegionLabels == { <<"M","E","N","A">>, <<"E","u","r","o","p","e">>, <<"A","m","e","r","i","c","a","s">>, <<"A","s","i","a">>, <<"I","n","t","e","r","n","a","t","i","o","n","a","l">> }

\* C6: getRegionFromCountry returns one of the five labels for every input,
\* and International for every input that is not a name of the table.
C6_RegionTotal ==
  (fnName = "getRegionFromCountry" /\ status = "returned") =>
    /\ fnOut \in { Str(l) : l \in RegionLabels }
    /\ fnArg \notin { Str(name) : name \in TableNames } => fnOut = Str(<<"I","n","t","e","r","n","a","t","i","o","n","a","l">>)

\* The Values of the normalized records of the selected year whose flow
\* description contains `word`.
YearFlowValues(word) ==
  LET picked == SelectSeq(tradeData,
                  LAMBDA r : r.Year = selectedYear /\ Includes(r.Flow.s, word))
  IN  [i \in 1..Len(picked) |-> picked[i].Value]

\* C7: the KPI exports (imports) total is the sum of Value over the records
\* of exactly the selected year classified Export (Import), and net is
\* exports minus imports.
C7_KpiTotals ==
  status = "ok" =>
    /\ overviewStats.exports = SumSeq(YearFlowValues(<<"E","x","p","o","r","t">>))
    /\ overviewStats.imports = SumSeq(YearFlowValues(<<"I","m","p","o","r","t">>))
    /\ overviewStats.net = Sub(SumSeq(YearFlowValues(<<"E","x","p","o","r","t">>)),
                               SumSeq(YearFlowValues(<<"I","m","p","o","r","t">>)))

C7_Witness ==
  /\ status = "ok"
  /\ selectedYear = Num(2020)
  /\ Len(tradeData) = 2
  /\ tradeData[1].Year = Num(2021) /\ Gt(tradeData[1].Value, Num(0))
  /\ tradeData[2].Year = Num(2020)
  /\ overviewStats.exports = Num(3)
  /\ overviewStats.imports = Num(0)
  /\ overviewStats.net = Num(3)

\* The Values of the normalized records of year y.
YearValues(y) ==
  LET picked == SelectSeq(tradeData, LAMBDA r : r.Year = y)
  IN  [i \in 1..Len(picked) |-> picked[i].Value]

GroupValues(by, name) ==
  LET picked == SelectSeq(currentYearData,
                  LAMBDA r : (IF by = "Partner" THEN r.Partner ELSE r.Region) = name)
  IN  [i \in 1..Len(picked) |-> picked[i].Value]

\* C8: no record's Value is counted in both the exports and the imports
\* bucket: in the KPIs, in every history year and in every partner and region
\* group, exports + imports is at most the Value the records hold.
C8_ExclusiveFlow ==
  status = "ok" =>
    /\ Ge(SumSeq(YearValues(selectedYear)),
          Add(overviewStats.exports, overviewStats.imports))
    /\ \A i \in 1..Len(overviewStats.history) :
         Ge(SumSeq(YearValues(overviewStats.history[i].year)),
            Add(overviewStats.history[i].exports, overviewStats.history[i].imports))
    /\ \A i \in 1..Len(geoStats.partners) :
         Ge(SumSeq(GroupValues("Partner", geoStats.partners[i].name)),
            Add(geoStats.partners[i].exports, geoStats.partners[i].imports))
    /\ \A i \in 1..Len(geoStats.regions) :
         Ge(SumSeq(GroupValues("Region", geoStats.regions[i].name)),
            Add(geoStats.regions[i].exports, geoStats.regions[i].imports))

\* C9: the waterfall has the three entries Exports, Imports, Net in that
\* order, the second is minus the import total and the third is the sum of
\* the first two; here in the payload version, where the third is kpi.net.
C9_WaterfallP ==
  (status = "ok" /\ Truthy(currentYearStats)) =>
    /\ Len(overviewStatsP.waterfall) = 3
    /\ [i \in 1..3 |-> overviewStatsP.waterfall[i].name] = <<"Exports", "Imports", "Net">>
    /\ overviewStatsP.waterfall[2].value = Neg(currentYearStats.kpi.imports)
    /\ overviewStatsP.waterfall[3].value =
         Add(overviewStatsP.waterfall[1].value, overviewStatsP.waterfall[2].value)

\* C9, the record-driven version.
C9_WaterfallRecords ==
  status = "ok" =>
    /\ Len(overviewStats.waterfall) = 3
    /\ [i \in 1..3 |-> overviewStats.waterfall[i].name] = <<"Exports", "Imports", "Net">>
    /\ overviewStats.waterfall[2].value = Neg(overviewStats.imports)
    /\ overviewStats.waterfall[3].value =
         Add(overviewStats.waterfall[1].value, overviewStats.waterfall[2].value)

\* C10: with non-negative values the concentration risk lies in [0, 100], and
\* it is 0 when exports + imports of the selected year is 0.
C10_RiskBounded ==
  status = "ok" =>
    /\ Ge(overviewStats.concentrationRisk, Num(0))
    /\ Ge(Num(100), overviewStats.concentrationRisk)
    /\ Add(overviewStats.exports, overviewStats.imports) = Num(0)
         => overviewStats.concentrationRisk = Num(0)

\* The members of a sequence.
Range(s) == { s[i] : i \in 1..Len(s) }

Min(a, b) == IF a < b THEN a ELSE b

\* The cleaned commodity names of records.
CommodityNames(records) == { CleanName(r.Commodity.s) : r \in Range(records) }

\* The records of one cleaned commodity name.
RecordsNamed(records, name) ==
  SelectSeq(records, LAMBDA r : CleanName(r.Commodity.s) = name)

ValuesNamed(records, name) ==
  LET rs == RecordsNamed(records, name) IN [i \in 1..Len(rs) |-> rs[i].Value]

WeightsNamed(records, name) ==
  LET rs == RecordsNamed(records, name) IN [i \in 1..Len(rs) |-> rs[i].Weight]

\* `all` and `top` are the commodity rollup of `records`.
IsCommodityRollup(records, names, all, top) ==
  /\ Len(all) = Min(Top30, Cardinality(names))
  /\ Len(top) = Min(Top10, Cardinality(names))
  /\ \A i \in 1..Len(all) :
       /\ all[i].name \in names
       /\ all[i].value = SumSeq(ValuesNamed(records, all[i].name))
       /\ all[i].weight = SumSeq(WeightsNamed(records, all[i].name))
       /\ all[i].size = all[i].value
  /\ \A i, j \in 1..Len(all) :
       i < j => all[i].name # all[j].name /\ Ge(all[i].value, all[j].value)
  /\ \A name \in names \ { all[i].name : i \in 1..Len(all) } :
       Ge(all[Len(all)].value, SumSeq(ValuesNamed(records, name)))
  /\ \A i \in 1..Len(top) :
       top[i] = [name |-> all[i].name, value |-> all[i].value, weight |-> all[i].weight]

GroupOf(by, r) == IF by = "Partner" THEN r.Partner ELSE r.Region

\* The Values of the records of one partner or region whose flow description
\* contains `word`.
GroupFlowValues(records, by, name, word) ==
  LET picked == SelectSeq(records,
                  LAMBDA r : GroupOf(by, r) = name /\ Includes(r.Flow.s, word))
  IN  [i \in 1..Len(picked) |-> picked[i].Value]

GroupVolume(records, by, name) ==
  Add(SumSeq(GroupFlowValues(records, by, name, <<"E","x","p","o","r","t">>)),
      SumSeq(GroupFlowValues(records, by, name, <<"I","m","p","o","r","t">>)))

GroupNames(records, by) == { GroupOf(by, r) : r \in Range(records) }

\* `entries` holds `count` of the groups `names` of `records`, each once, with
\* its exports and imports summed by flow, in descending order of exports +
\* imports, and no group left out is larger than one kept.
IsRollup(records, names, entries, by, count) ==
  /\ Len(entries) = count
  /\ \A i \in 1..Len(entries) :
       /\ entries[i].name \in names
       /\ entries[i].exports = SumSeq(GroupFlowValues(records, by, entries[i].name, <<"E","x","p","o","r","t">>))
       /\ entries[i].imports = SumSeq(GroupFlowValues(records, by, entries[i].name, <<"I","m","p","o","r","t">>))
  /\ \A i, j \in 1..Len(entries) :
       i < j => /\ entries[i].name # entries[j].name
                /\ Ge(Add(entries[i].exports, entries[i].imports),
                      Add(entries[j].exports, entries[j].imports))
  /\ \A name \in names \ { entries[i].name : i \in 1..Len(entries) } :
       Ge(Add(entries[Len(entries)].exports, entries[Len(entries)].imports),
          GroupVolume(records, by, name))

YearPartners == GroupNames(currentYearData, "Partner")
YearRegions  == GroupNames(currentYearData, "Region")

ContainsTerm(text, term) == Includes(ToLowerCase(text), ToLowerCase(term))

\* The first `limit` rows of `records`, in record order, that have the year
\* `year` and whose partner or commodity text contains `term`.
FirstMatches(records, year, term, limit) ==
  LET hits == { i \in 1..Len(records) :
                  /\ ToStr(records[i].Year) = ToStr(year)
                  /\ \/ ContainsTerm(records[i].Partner.s, term)
                     \/ ContainsTerm(records[i].Commodity.s, term) }
      nth(k) == CHOOSE i \in hits : Cardinality({ j \in hits : j <= i }) = k
  IN  [k \in 1..Min(limit, Cardinality(hits)) |-> records[nth(k)]]

\* The raw_sample rows as records with the fields of the grid's columns.
SampleRecords ==
  [i \in 1..Len(dashboardData.raw_sample.rows) |-> dashboardData.raw_sample.rows[i].f]

\* C13: the rows of the data grid are the first 100, in record order, of the
\* selected year's records whose partner or commodity contains the search
\* term case-insensitively; here for the grid over raw_sample.
C13_GridRowsP ==
  (DashboardShown /\ activeTab = "data") =>
    [i \in 1..Len(dataRows) |-> dataRows[i].f]
      = FirstMatches(SampleRecords, selectedYear, searchTerm, GridLimit)

\* C13, the record-driven version.
C13_GridRowsRecords ==
  status = "ok" =>
    filteredGridData = FirstMatches(tradeData, selectedYear, searchTerm, GridLimit)

\* The grid of the record-driven version is cut at 100 rows under a search
\* term that leaves some of the selected year's records out.
C13_RecordsCase ==
  /\ status = "ok" /\ activeTab = "data" /\ searchTerm # <<>>
  /\ Len(filteredGridData) = GridLimit
  /\ Len(FilteredGridDataOf(currentYearData, <<>>)) = GridLimit
  /\ \E i \in 1..Len(currentYearData) : ~GridMatch(currentYearData[i], ToLowerCase(searchTerm))
  /\ \E i \in 1..Len(currentYearData) :
       /\ GridMatch(currentYearData[i], ToLowerCase(searchTerm))
       /\ currentYearData[i] \notin Range(filteredGridData)

\* The Values of the records of one year whose flow contains `word`.
HistoryValues(records, year, word) ==
  LET picked == SelectSeq(records,
                  LAMBDA r : r.Year = year /\ Includes(r.Flow.s, word))
  IN  [i \in 1..Len(picked) |-> picked[i].Value]

\* C14: the history has one entry per distinct year of the whole normalized
\* record set, in strictly ascending year order, each with the sums of Value
\* over that year's records by flow class, whatever year is selected and
\* whatever the search term is.
C14_History ==
  status = "ok" =>
    \A records \in {tradeData}, history \in {overviewStats.history} :
      /\ { history[i].year : i \in 1..Len(history) } = { r.Year : r \in Range(records) }
      /\ \A i, j \in 1..Len(history) : i < j => Gt(history[j].year, history[i].year)
      /\ \A i \in 1..Len(history) :
           /\ history[i].exports = SumSeq(HistoryValues(records, history[i].year, <<"E","x","p","o","r","t">>))
           /\ history[i].imports = SumSeq(HistoryValues(records, history[i].year, <<"I","m","p","o","r","t">>))

C14_Witness ==
  /\ status = "ok"
  /\ Len(overviewStats.history) = 2
  /\ selectedYear = overviewStats.history[1].year
  /\ searchTerm # <<>>
  /\ Len(HistoryValues(tradeData, selectedYear, <<"E","x","p","o","r","t">>)) > 1
  /\ Len(HistoryValues(tradeData, overviewStats.history[2].year, <<"I","m","p","o","r","t">>)) > 1
  /\ Gt(overviewStats.history[2].imports, Num(0))

\* The metric of a history point that `key` names.
Metric(point, key) == IF key = "exports" THEN point.exports ELSE point.imports

\* C15: on a history of one point calculateLinearRegression returns slope 0
\* and that point's metric as intercept, on an empty history slope 0 and
\* intercept 0; the two projected points of a one-point history carry the
\* single historical value of each metric.
C15_ShortHistory ==
  /\ (fnName = "calculateLinearRegression" /\ status = "returned") =>
       /\ Len(fnArg.data) = 1 =>
            fnOut = [slope |-> Num(0), intercept |-> Metric(fnArg.data[1], fnArg.key)]
       /\ Len(fnArg.data) = 0 => fnOut = [slope |-> Num(0), intercept |-> Num(0)]
  /\ (fnName = "forecastData" /\ status = "returned" /\ Len(fnArg.rows) = 1) =>
       /\ Len(fnOut.rows) = 3
       /\ \A k \in 2..3 : /\ fnOut.rows[k].exports = fnArg.rows[1].exports
                          /\ fnOut.rows[k].imports = fnArg.rows[1].imports

C15_Witness ==
  /\ fnName = "forecastData" /\ status = "returned"
  /\ Len(fnArg.rows) = 1
  /\ fnArg.rows[1].exports = Rat(7, 2)
  /\ fnArg.rows[1].imports = Num(5)
  /\ fnOut.rows[3].exports = Rat(7, 2)

\* The fit of a one-point history has been returned.
C15_OnePointFit ==
  /\ fnName = "calculateLinearRegression" /\ status = "returned"
  /\ Len(fnArg.data) = 1 /\ fnArg.key = "imports"
  /\ fnOut.intercept = Rat(7, 2)

\* The fit of the empty history has been returned.
C15_EmptyFit ==
  /\ fnName = "calculateLinearRegression" /\ status = "returned"
  /\ Len(fnArg.data) = 0

\* C16: the forecast of a history of at least one point is the unchanged
\* history followed by exactly two projected points, of the years lastYear + 1
\* and lastYear + 2 and with exports / imports slope * year + intercept of the
\* respective fit; it is strictly ascending by year, the projected points
\* carry isForecast = true and no historical point carries the flag.
C16_Forecast ==
  (fnName = "forecastData" /\ status = "returned" /\ Len(fnArg.rows) >= 1) =>
    LET history  == fnArg.rows
        n        == Len(history)
        forecast == fnOut.rows
        expFit   == calculateLinearRegression(history, "exports")
        impFit   == calculateLinearRegression(history, "imports")
    IN  /\ Len(forecast) = n + 2
        /\ SubSeq(forecast, 1, n) = history
        /\ \A k \in 1..2 :
             /\ forecast[n + k].year = Add(history[n].year, Num(k))
             /\ forecast[n + k].year.t = "number"
             /\ forecast[n + k].exports =
                  Add(Mul(expFit.slope, forecast[n + k].year), expFit.intercept)
             /\ forecast[n + k].imports =
                  Add(Mul(impFit.slope, forecast[n + k].year), impFit.intercept)
             /\ forecast[n + k].isForecast = TRUE
        /\ \A i \in 1..n : "isForecast" \notin DOMAIN forecast[i]
        /\ \A i, j \in 1..(n + 2) : i < j => Gt(forecast[j].year, forecast[i].year)

C16_Witness ==
  /\ fnName = "forecastData" /\ status = "returned"
  /\ Len(fnArg.rows) = 3
  /\ Len(fnOut.rows) = 5
  /\ fnOut.rows[5].year = Num(2023)
  /\ Gt(fnOut.rows[5].exports, fnOut.rows[4].exports)
  /\ Gt(fnOut.rows[5].imports, fnOut.rows[4].imports)
  /\ fnOut.rows[4].imports # fnArg.rows[3].imports

\* The year of an indicator row as a number, 0 when the row has no usable year.
WbYear(row) ==
  IF PositiveIntegerYear(RawYear(row)) THEN YearNumber(RawYear(row)) ELSE 0

\* The indicator code of a row, the empty text when it has none.
WbCode(row) ==
  LET code == Or(Get(row, "Indicator_Code"), Get(row, "indicator_code"))
  IN  IF IsString(code) THEN code.s ELSE <<>>

\* The value of an indicator row as a number.
WbValue(row) ==
  LET v == Get(row, "Indicator_Value")
  IN  IF v.t = "number" THEN v ELSE StringToNumber(v.s)

\* The value of the last row of `year` whose code is one of `codes`, 0 when
\* there is none.
LastValue(rows, year, codes) ==
  LET hits == { i \in 1..Len(rows) : WbYear(rows[i]) = year /\ WbCode(rows[i]) \in codes }
  IN  IF hits = {} THEN Num(0)
      ELSE WbValue(rows[CHOOSE i \in hits : \A j \in hits : j <= i])

\* `out` is the merge of the indicator rows `rows`.
IsMerge(rows, out) ==
  /\ { out[i].Year : i \in 1..Len(out) }
       = { Num(WbYear(rows[i])) : i \in { j \in 1..Len(rows) : WbYear(rows[j]) > 0 } }
  /\ \A i, j \in 1..Len(out) : i < j => Gt(out[j].Year, out[i].Year)
  /\ \A i \in 1..Len(out) :
       /\ out[i].GDP = LastValue(rows, out[i].Year.n, GdpCodes)
       /\ out[i].Inflation = LastValue(rows, out[i].Year.n, CpiCodes)

\* C17: the indicator merge has one record per distinct year of the raw rows,
\* in ascending year order, with the GDP value of the last row carrying a GDP
\* growth code and the inflation value of the last row carrying a CPI code, 0
\* when there is none; here for formattedWB of the payload version.
C17_MergeP ==
  (fnName = "formattedWB" /\ status = "returned") => IsMerge(fnArg.rows, fnOut.rows)

\* C17, the record-driven version (wbData), with the example of the two 2021
\* rows.
C17_MergeRecords ==
  (fnName = "wbData" /\ status = "returned") =>
    /\ IsMerge(fnArg.rows, fnOut.rows)
    /\ fnArg = WbSample =>
         fnOut.rows = << [Year |-> Num(2021), GDP |-> Rat(9, 2), Inflation |-> Rat(31, 5)] >>

\* wbData has merged three rows of two years, two of them GDP rows of one year.
C17_RecordsCase ==
  /\ fnName = "wbData" /\ status = "returned"
  /\ Len(fnArg.rows) = 3 /\ Len(fnOut.rows) = 2
  /\ WbYear(fnArg.rows[1]) = 2021 /\ WbCode(fnArg.rows[1]) \in GdpCodes
  /\ WbYear(fnArg.rows[3]) = 2021 /\ WbCode(fnArg.rows[3]) \in GdpCodes
  /\ WbValue(fnArg.rows[1]) # WbValue(fnArg.rows[3])
  /\ fnOut.rows[2].GDP = WbValue(fnArg.rows[3])
  /\ WbYear(fnArg.rows[2]) = 2019

\* The record of the row's year in a `years` object, zeros when it has none.
YearRecord(years, row) ==
  IF MapHas(years, IntToDigits(WbYear(row))) THEN MapGet(years, IntToDigits(WbYear(row)))
  ELSE [Year |-> Num(WbYear(row)), GDP |-> Num(0), Inflation |-> Num(0)]

\* One row took `before` to `after`: a field of the row's year changes only
\* under an exactly matching code and takes the row's value then, the row
\* changes at most one field, and the other years stay as they were.
RowRespectsCodes(before, row, after) ==
  IF WbYear(row) = 0 THEN after = before
  ELSE /\ WbCode(row) \notin GdpCodes =>
            YearRecord(after, row).GDP = YearRecord(before, row).GDP
       /\ WbCode(row) \notin CpiCodes =>
            YearRecord(after, row).Inflation = YearRecord(before, row).Inflation
       /\ WbCode(row) \in GdpCodes => YearRecord(after, row).GDP = WbValue(row)
       /\ WbCode(row) \in CpiCodes => YearRecord(after, row).Inflation = WbValue(row)
       /\ ~ /\ YearRecord(after, row).GDP # YearRecord(before, row).GDP
            /\ YearRecord(after, row).Inflation # YearRecord(before, row).Inflation
       /\ \A i \in 1..Len(before) :
            before[i].key # IntToDigits(WbYear(row)) =>
              MapHas(after, before[i].key) /\ MapGet(after, before[i].key) = before[i].val

\* C18: a row changes the GDP or the inflation field of its year only when its
\* code equals one of the two spellings of that indicator; a row with another
\* code, a code that only contains "GDP" or "CPI", or no code changes neither,
\* and no row changes both; here for the callback of formattedWB.
C18_ExactCodesP ==
  (fnName = "formattedWB callback" /\ status = "returned") =>
    RowRespectsCodes(fnArg.years, fnArg.row, fnOut)

\* C18, the record-driven version (the callback of wbData).
C18_ExactCodesRecords ==
  (fnName = "wbData callback" /\ status = "returned") =>
    RowRespectsCodes(fnArg.years, fnArg.row, fnOut)

\* The callback of wbData has left a year's record as it was under a code that
\* contains "GDP" and "CPI".
C18_RecordsCase ==
  /\ fnName = "wbData callback" /\ status = "returned"
  /\ WbCode(fnArg.row) = <<"G","D","P","_","P","E","R","_","C","P","I">>
  /\ MapHas(fnArg.years, <<"2","0","2","1">>)
  /\ fnOut = fnArg.years

\* The normalized record set exists and has at least one year.
HasYears == ~TradeDataRaises(tradeDataRawInput) /\ Len(tradeData) > 0

\* `y` is the numerically largest of the available years.
IsLargestYear(y) ==
  /\ y \in Range(availableYears)
  /\ \A z \in Range(availableYears) : Ge(y, z)

\* The selected year is one of the available years and the list of available
\* years is in descending numeric order.
SelectionInRange ==
  /\ selectedYear \in Range(availableYears)
  /\ \A i, j \in 1..Len(availableYears) :
       i < j => Gt(availableYears[i], availableYears[j])

\* C19: when the record set has a year and none is selected, the selected year
\* eventually becomes the largest available year; from then on, whatever the
\* user selects, opens or types, the selected year is one of the available
\* years and the list of available years is in descending numeric order.
C19_DefaultYear ==
  /\ (HasYears /\ ~Truthy(selectedYear)) ~> (HasYears /\ IsLargestYear(selectedYear))
  /\ [](HasYears /\ Truthy(selectedYear) => SelectionInRange)

\* A year other than the default one is selected, on the data tab under a
\* search term.
C19_SelectionCase ==
  /\ status = "ok" /\ HasYears
  /\ Len(availableYears) = 2
  /\ selectedYear = availableYears[2]
  /\ activeTab = "data" /\ searchTerm # <<>>

\* The loading ends and never starts again.
C20_LoadingEnds ==
  /\ <>(loading = FALSE)
  /\ [][loading = FALSE => loading' = FALSE]_vars

\* C20: whatever the loader yields for the payload (a rejected fetch, a body
\* that is no JSON, null, an object without yearly_data, with empty
\* yearly_data, a well-formed payload), the payload dashboard eventually has
\* loading = false, never returns to loading = true, and no render raises: it
\* shows the dashboard or the failure state. The indicator file is taken to be
\* an array of rows.
C20_LoaderOutcomes ==
  /\ <>(loading = FALSE)
  /\ [][loading = FALSE => loading' = FALSE]_vars
  /\ [](IsArray(wbDataState) => status # "crashed")

-----------------------------------------------------------------------------
(* C21-C27 *)

\* C21: from the two raw rows of 2020, an export to Italy of "12 - Oil" worth
\* "1,000,000" and an import from China of "Electronics" worth 500000, with
\* year 2020 selected: exports are 1000000, imports 500000, net 500000, the
\* waterfall values are 1000000, -500000, 500000, and the region rollup has
\* Europe with exports 1000000 and Asia with imports 500000.
C21_EndToEnd ==
  (status = "ok" /\ tradeDataRawInput \in ScenarioInputs /\ selectedYear = Num(2020)) =>
    \A stats \in {overviewStats}, regions \in {geoStats.regions} :
      /\ stats.exports = Num(1000000)
      /\ stats.imports = Num(500000)
      /\ stats.net = Num(500000)
      /\ [i \in 1..Len(stats.waterfall) |-> stats.waterfall[i].value]
           = <<Num(1000000), Num(-500000), Num(500000)>>
      /\ \E i \in 1..Len(regions) :
           regions[i].name = Str(<<"E","u","r","o","p","e">>) /\ regions[i].exports = Num(1000000)
      /\ \E i \in 1..Len(regions) :
           regions[i].name = Str(<<"A","s","i","a">>) /\ regions[i].imports = Num(500000)

C21_Witness ==
  /\ status = "ok"
  /\ tradeDataRawInput = ArrayOf(<<ScenarioExport(FALSE), ScenarioImport(TRUE)>>)
  /\ selectedYear = Num(2020)
  /\ activeTab = "regions"
  /\ Len(geoStats.regions) = 2

\* The fill categories of part_000:13-14: the export colour is the positive
\* category and the colour of the card's emerald class, the import colour the
\* negative one.
PositiveFill == "export"
NegativeFill == "import"

\* C22: the Net entry of the waterfall has the positive (export) fill exactly
\* when net >= 0 and the negative (import) fill exactly when net < 0, also
\* when exports = imports; and it has the positive fill exactly when the Net
\* Balance card has its positive class. Stated for the renders with a year
\* selected.
C22_NetFill ==
  (status = "ok" /\ Truthy(selectedYear)) =>
    \A stats \in {overviewStats} :
      /\ stats.waterfall[3].name = "Net"
      /\ stats.waterfall[3].fill = PositiveFill <=> Ge(stats.net, Num(0))
      /\ stats.waterfall[3].fill = NegativeFill <=> Gt(Num(0), stats.net)
      /\ stats.waterfall[3].fill = PositiveFill
           <=> NetCardClass(stats.net) = "text-emerald-600"

\* The part of C22 off the boundary: with net # 0 the fill follows the sign
\* and agrees with the card.
C22_NetFillNonZero ==
  (status = "ok" /\ overviewStats.net # Num(0)) =>
    \A stats \in {overviewStats} :
      /\ stats.waterfall[3].fill = PositiveFill <=> Gt(stats.net, Num(0))
      /\ stats.waterfall[3].fill = NegativeFill <=> Gt(Num(0), stats.net)
      /\ stats.waterfall[3].fill = PositiveFill
           <=> NetCardClass(stats.net) = "text-emerald-600"

C22_NonZeroCase ==
  /\ status = "ok"
  /\ Gt(Num(0), overviewStats.net)
  /\ overviewStats.waterfall[3].fill = NegativeFill

\* The position in `records` of the first record whose key is `key`.
FirstSeen(records, KeyOf(_), key) ==
  CHOOSE i \in 1..Len(records) :
    KeyOf(records[i]) = key /\ \A j \in 1..(i - 1) : KeyOf(records[j]) # key

\* Any two entries with the same metric are in the order in which their keys
\* were first met in `records`.
TiesInEncounterOrder(records, KeyOf(_), entries, MetricOf(_)) ==
  \A i, j \in 1..Len(entries) :
    (i < j /\ MetricOf(entries[i]) = MetricOf(entries[j])) =>
      FirstSeen(records, KeyOf, entries[i].name)
        < FirstSeen(records, KeyOf, entries[j].name)

CommodityKey(r) == CleanName(r.Commodity.s)
PartnerKey(r)   == r.Partner
RegionKey(r)    == r.Region
ValueOf(e)      == e.value
VolumeOf(e)     == Add(e.exports, e.imports)

AllTiesInEncounterOrder(records, commodities, geo) ==
  /\ TiesInEncounterOrder(records, CommodityKey, commodities.all, ValueOf)
  /\ TiesInEncounterOrder(records, CommodityKey, commodities.top10, ValueOf)
  /\ TiesInEncounterOrder(records, PartnerKey, geo.partners, VolumeOf)
  /\ TiesInEncounterOrder(records, RegionKey, geo.regions, VolumeOf)

\* C23: in the commodity, partner and region rollups two groups with the same
\* summed sort metric are in the order in which their keys were first met in
\* the records of the selected year, whatever the key strings are, strings of
\* decimal digits included.
C23_TieOrder ==
  status = "ok" =>
    \A records \in {currentYearData} :
      AllTiesInEncounterOrder(records, commodityStats, geoStats)

\* A key that Object.values moves to the front: a canonical array index.
DigitKey(v) == IsString(v) /\ IsArrayIndex(v.s)

\* The part of C23 for keys that are no strings of decimal digits.
C23_TieOrderNames ==
  status = "ok" =>
    \A records \in {currentYearData} :
      (\A i \in 1..Len(records) :
         ~DigitKey(records[i].Partner) /\ ~IsArrayIndex(CommodityKey(records[i])))
        => AllTiesInEncounterOrder(records, commodityStats, geoStats)

C23_NamesCase ==
  /\ status = "ok"
  /\ Len(commodityStats.all) = 2
  /\ commodityStats.all[1].name = <<"O","i","l">>
  /\ commodityStats.all[2].name = <<"G","a","s">>
  /\ commodityStats.all[1].value = commodityStats.all[2].value
  /\ Len(geoStats.partners) = 2
  /\ VolumeOf(geoStats.partners[1]) = VolumeOf(geoStats.partners[2])
  /\ geoStats.regions[1].name = Str(<<"E","u","r","o","p","e">>)
  /\ geoStats.regions[2].name = Str(<<"A","s","i","a">>)

\* The payload is loaded, has its yearly data, and its trends is an empty
\* array; the indicator file is an array.
EmptyTrendsLoaded ==
  /\ loading = FALSE
  /\ Truthy(dashboardData)
  /\ ~YearlyMissing(dashboardData)
  /\ Truthy(dashboardData.trends)
  /\ Len(dashboardData.trends.rows) = 0
  /\ IsArray(wbDataState)

\* C24, precomputed-payload version: with a payload whose trends is an empty
\* array the forecaster does not raise (the render commits) and returns the
\* empty sequence.
C24_EmptyHistoryP ==
  EmptyTrendsLoaded => (status = "ok" /\ ForecastDataPOf(dashboardData) = <<>>)

\* C24, record-driven version: with an empty record set the history is empty,
\* the forecaster does not raise and returns the empty sequence.
C24_EmptyHistoryRecords ==
  (status \in {"ok", "crashed"} /\ IsArray(tradeDataRawInput)
     /\ Len(tradeDataRawInput.rows) = 0) =>
    /\ status = "ok"
    /\ overviewStats.history = <<>>
    /\ forecastData = <<>>

C24_RecordsCase ==
  /\ status = "ok"
  /\ tradeDataRawInput = ArrayOf(<<>>)
  /\ activeTab = "forecast"
  /\ forecastData = <<>>

\* Two histories with the same years and the same values of one metric.
SameOn(h1, h2, key) ==
  /\ Len(h1) = Len(h2)
  /\ \A i \in 1..Len(h1) :
       h1[i].year = h2[i].year /\ Metric(h1[i], key) = Metric(h2[i], key)

\* The two projected values of one metric in a forecast.
Projected(forecast, key) ==
  << Metric(forecast[Len(forecast) - 1], key), Metric(forecast[Len(forecast)], key) >>

\* C25: the exports fit and the imports fit are independent: a history with
\* the same years and exports and other imports has the same exports slope
\* and intercept and the same two projected exports, and likewise for the
\* imports with other exports.
C25_Independent ==
  (fnName = "forecastData" /\ status = "returned") =>
    \A h \in {fnArg.rows}, out \in {fnOut.rows} :
      \A other \in Histories, key \in {"exports", "imports"} :
        SameOn(h, other, key) =>
          /\ calculateLinearRegression(other, key) = calculateLinearRegression(h, key)
          /\ Projected(ForecastDataOf(other), key) = Projected(out, key)

C25_Witness ==
  /\ fnName = "forecastData"
  /\ status = "returned"
  /\ Len(fnArg.rows) = 3
  /\ \E other \in Histories :
       /\ SameOn(fnArg.rows, other, "exports")
       /\ Projected(ForecastDataOf(other), "imports") # Projected(fnOut.rows, "imports")
       /\ calculateLinearRegression(other, "imports").slope
            # calculateLinearRegression(fnArg.rows, "imports").slope

\* The years of a history are pairwise distinct integers.
DistinctIntegerYears(history) ==
  /\ \A i \in 1..Len(history) : ~IsNaN(history[i].year) /\ history[i].year.d = 1
  /\ \A i, j \in 1..Len(history) : i # j => history[i].year # history[j].year

\* n * sum(year^2) - (sum(year))^2
Denominator(history) ==
  Sub(Mul(Num(Len(history)),
          SumSeq([i \in 1..Len(history) |-> Mul(history[i].year, history[i].year)])),
      Mul(SumSeq([i \in 1..Len(history) |-> history[i].year]),
          SumSeq([i \in 1..Len(history) |-> history[i].year])))

\* The line through the first two points of a history: its slope a and its
\* value b at year 0.
LineSlope(history, key) ==
  Div(Sub(Metric(history[2], key), Metric(history[1], key)),
      Sub(history[2].year, history[1].year))
LineIntercept(history, key) ==
  Sub(Metric(history[1], key), Mul(LineSlope(history, key), history[1].year))
OnLine(history, key, point) ==
  Metric(point, key)
    = Add(Mul(LineSlope(history, key), point.year), LineIntercept(history, key))

\* The metric is an exact linear function of the year over the history.
IsLinear(history, key) == \A i \in 1..Len(history) : OnLine(history, key, history[i])

C26_FitCase ==
  /\ fnName = "calculateLinearRegression"
  /\ status = "returned"
  /\ Len(fnArg.data) = 3
  /\ fnArg.key = "exports"
  /\ IsLinear(fnArg.data, "exports")
  /\ fnOut.slope = Num(2)
  /\ fnOut.intercept = Num(-4036)

\* The histories that the grouping of part_000:203-209 builds have pairwise
\* distinct integer years and, from two points on, a positive denominator.
C26_GroupedHistory ==
  status = "ok" =>
    \A history \in {overviewStats.history} :
      /\ DistinctIntegerYears(history)
      /\ Len(history) >= 2 => Gt(Denominator(history), Num(0))

C26_GroupedCase ==
  /\ status = "ok"
  /\ Len(overviewStats.history) = 2

ExportsColumn(entries) == [i \in 1..Len(entries) |-> entries[i].exports]
ImportsColumn(entries) == [i \in 1..Len(entries) |-> entries[i].imports]

====
